---- MODULE Spec2Model ----
(***************************************************************************)
(* PharmaIntel (drug-pulse): the relational store declared by the          *)
(* migrations, the admin-etl edge function, and the ingestion pipeline     *)
(* (Normalizer -> Entity Resolver -> Upsert Writer, wrapped by the         *)
(* Execution Tracker) that writes to the store.                            *)
(*                                                                         *)
(* The store's tables, constraints, defaults, triggers and row-level       *)
(* security policies are modelled from the SQL migrations.  The admin-etl  *)
(* handler is modelled from its TypeScript source.  The Python ETL scripts *)
(* (etl/*.py, named by the Makefile and README) are not among the source   *)
(* files; the pipeline steps are modelled from spec.md sections 4 and 5.   *)
(***************************************************************************)
EXTENDS Integers, Sequences, FiniteSets, TLC

NULL == "NULL"
\* SQL NULL in an integer or timestamp column
NONE == 0 - 1

(***************************************************************************)
(* Bounds of the model.                                                    *)
(***************************************************************************)
\* concurrent ingestion runs in Spec
MaxRuns == 2
\* raw records one fetch returns in Spec
MaxBatch == 1
\* records per chunk transaction
ChunkSize == 1
\* largest value of the logical clock NOW()
MaxClock == 1
\* sequential resolver calls in SpecResolver
MaxCalls == 3
\* requests served / user statements issued in SpecAdmin
MaxRequests == 3
MaxTwice == 2
MaxChunks == 3
MaxRetries == 3
HistoryLimit == 2
MaxRecords == 3
\* auth-state-change callbacks delivered to Navigation
MaxAuthEvents == 3
\* length of the short queries given to searchAllEntities
MaxQueryLen == 2

(***************************************************************************)
(* Names.  A name is a sequence of characters, so that case folding and    *)
(* whitespace normalisation are computed, not assumed.                     *)
(***************************************************************************)
N_Ac   == <<"A", "c">>
N_ac   == <<"a", "c">>
N_AcSp == <<"A", "c", " ">>
N_Ax   == <<"A", "x">>
N_B    == <<"B">>

Names == {N_Ac, N_ac, N_AcSp, N_Ax, N_B}

\* external keys (cik / mesh_id / uniprot_id values)
Keys == {"K1", "K2"}

Lower(c) ==
  CASE c = "A" -> "a"
    [] c = "B" -> "b"
    [] c = "C" -> "c"
    [] c = "D" -> "d"
    [] c = "E" -> "e"
    [] c = "F" -> "f"
    [] c = "G" -> "g"
    [] c = "H" -> "h"
    [] c = "I" -> "i"
    [] c = "J" -> "j"
    [] c = "K" -> "k"
    [] c = "L" -> "l"
    [] c = "M" -> "m"
    [] c = "N" -> "n"
    [] c = "O" -> "o"
    [] c = "P" -> "p"
    [] c = "Q" -> "q"
    [] c = "R" -> "r"
    [] c = "S" -> "s"
    [] c = "T" -> "t"
    [] c = "U" -> "u"
    [] c = "V" -> "v"
    [] c = "W" -> "w"
    [] c = "X" -> "x"
    [] c = "Y" -> "y"
    [] c = "Z" -> "z"
    [] OTHER   -> c

RECURSIVE LowerAll(_)
LowerAll(s) ==
  IF s = <<>> THEN <<>> ELSE <<Lower(Head(s))>> \o LowerAll(Tail(s))

\* drop leading blanks
RECURSIVE TrimLeft(_)
TrimLeft(s) ==
  IF s = <<>> THEN <<>>
  ELSE IF Head(s) = " " THEN TrimLeft(Tail(s)) ELSE s

\* collapse every run of blanks to one blank and drop trailing blanks
RECURSIVE Collapse(_)
Collapse(s) ==
  IF s = <<>> THEN <<>>
  ELSE IF Head(s) = " "
       THEN LET rest == TrimLeft(Tail(s))
            IN  IF rest = <<>> THEN <<>> ELSE <<" ">> \o Collapse(rest)
       ELSE <<Head(s)>> \o Collapse(Tail(s))

\* rule (4): case-insensitive, normalized-whitespace form of a name
NormName(s) == Collapse(TrimLeft(LowerAll(s)))

(***************************************************************************)
(* The store: one set of rows per table.                                   *)
(***************************************************************************)
EntityTypes == {"company", "drug", "indication", "target"}

\* synonyms.entity_type -> table holding the canonical rows
TableOf(type) ==
  CASE type = "company"    -> "companies"
    [] type = "drug"       -> "drugs"
    [] type = "indication" -> "indications"
    [] type = "target"     -> "targets"

\* the name column of each canonical table
NameOf(type, row) ==
  CASE type = "company"    -> row.canonical_name
    [] type = "drug"       -> row.preferred_name
    [] type = "indication" -> row.label
    [] type = "target"     -> row.name

\* the external identifier column of each canonical table (drugs have none)
KeyOf(type, row) ==
  CASE type = "company"    -> row.cik
    [] type = "drug"       -> NULL
    [] type = "indication" -> row.mesh_id
    [] type = "target"     -> row.uniprot_id

\* a new canonical row: SERIAL id, DEFAULT NOW() timestamps
NewEntityRow(type, id, name, key, t) ==
  CASE type = "company" ->
         [id |-> id, canonical_name |-> name, cik |-> key,
          created_at |-> t, updated_at |-> t]
    [] type = "drug" ->
         [id |-> id, preferred_name |-> name, company_id |-> NONE,
          created_at |-> t]
    [] type = "indication" ->
         [id |-> id, label |-> name, mesh_id |-> key, created_at |-> t]
    [] type = "target" ->
         [id |-> id, name |-> name, uniprot_id |-> key, created_at |-> t]

Tables ==
  {"companies", "drugs", "indications", "targets", "synonyms",
   "trials", "approvals", "filings"}

EmptyDb == [t \in Tables |-> {}]

\* SERIAL columns: one sequence per table that has one
SerialTables == Tables \ {"trials"}

ZeroSeq == [t \in SerialTables |-> 0]

Ids(rows) == {r.id : r \in rows}

\* companies.cik TEXT UNIQUE (NULLs never conflict)
CompaniesCikUnique(rows) ==
  \A a \in rows, b \in rows :
    (a.cik # NULL /\ a.cik = b.cik) => a = b

\* synonyms UNIQUE(entity_type, name)
SynonymsUnique(rows) ==
  \A a \in rows, b \in rows :
    (a.entity_type = b.entity_type /\ a.name = b.name) => a = b

\* PRIMARY KEY (id) of any table
PkeyUnique(rows) ==
  \A a \in rows, b \in rows : a.id = b.id => a = b

Phases == {"1", "1/2", "2", "2/3", "3", "4", "N/A"}

\* trials.phase CHECK (phase IN (...)); a NULL phase passes a CHECK
TrialsPhaseCheck(row) == row.phase = NULL \/ row.phase \in Phases

(***************************************************************************)
(* Entity Resolver (spec.md 4.3): the ordered precedence chain             *)
(*   (1) external key, (2) canonical name, (3) Synonym table,              *)
(*   (4) case-insensitive / normalized-whitespace match, (5) create.       *)
(* Each rule yields the set of canonical ids it matches in the rows the    *)
(* caller can see.                                                         *)
(***************************************************************************)
Min(S) == CHOOSE x \in S : \A y \in S : x <= y

\* rule (1): exact match on the external key, when the source provides one
MatchKey(d, type, name, key) ==
  IF key = NULL THEN {}
  ELSE {r.id : r \in {x \in d[TableOf(type)] : KeyOf(type, x) = key}}

\* rule (2): exact match on the canonical name
MatchName(d, type, name, key) ==
  {r.id : r \in {x \in d[TableOf(type)] : NameOf(type, x) = name}}

\* a Synonym lookup that answers with the id of the Synonym row instead of
\* the canonical id it points to
MatchSynonym_RowId(d, type, name, key) ==
  {s.id :
     s \in {x \in d.synonyms : x.entity_type = type /\ x.name = name}}

\* rule (3): exact match against the Synonym table
MatchSynonym(d, type, name, key) ==
  {s.canonical_id :
     s \in {x \in d.synonyms : x.entity_type = type /\ x.name = name}}

\* rule (4): case-insensitive / normalized-whitespace match, on canonical
\* names and on registered synonyms
MatchNormalized(d, type, name, key) ==
  {r.id : r \in {x \in d[TableOf(type)] :
                   NormName(NameOf(type, x)) = NormName(name)}}
  \cup
  {s.canonical_id :
     s \in {x \in d.synonyms :
              x.entity_type = type /\ NormName(x.name) = NormName(name)}}

\* a tie-break that ignores external keys: the oldest match
TieBreak_Oldest(d, type, ids) == Min(ids)

\* tie-break among several matches: an entity that has an external key is
\* preferred to one without; then the oldest (lowest id)
TieBreak(d, type, ids) ==
  LET keyed == {i \in ids :
                  \E r \in d[TableOf(type)] :
                    r.id = i /\ KeyOf(type, r) # NULL}
  IN  IF keyed # {} THEN Min(keyed) ELSE Min(ids)

\* a resolver that never looks up and always creates
ResolveLookup_AlwaysCreate(d, type, name, key) == [rule |-> 5, id |-> NONE]

\* a resolver that tries the canonical name before the external key
ResolveLookup_NameFirst(d, type, name, key) ==
  LET m1 == MatchKey(d, type, name, key)
      m2 == MatchName(d, type, name, key)
      m3 == MatchSynonym(d, type, name, key)
      m4 == MatchNormalized(d, type, name, key)
  IN  IF m2 # {} THEN [rule |-> 2, id |-> TieBreak(d, type, m2)]
      ELSE IF m1 # {} THEN [rule |-> 1, id |-> TieBreak(d, type, m1)]
      ELSE IF m3 # {} THEN [rule |-> 3, id |-> TieBreak(d, type, m3)]
      ELSE IF m4 # {} THEN [rule |-> 4, id |-> TieBreak(d, type, m4)]
      ELSE [rule |-> 5, id |-> NONE]

\* the lookups of the chain, in order: the rule that decided and the id
ResolveLookup(d, type, name, key) ==
  LET m1 == MatchKey(d, type, name, key)
      m2 == MatchName(d, type, name, key)
      m3 == MatchSynonym(d, type, name, key)
      m4 == MatchNormalized(d, type, name, key)
  IN  IF m1 # {} THEN [rule |-> 1, id |-> TieBreak(d, type, m1)]
      ELSE IF m2 # {} THEN [rule |-> 2, id |-> TieBreak(d, type, m2)]
      ELSE IF m3 # {} THEN [rule |-> 3, id |-> TieBreak(d, type, m3)]
      ELSE IF m4 # {} THEN [rule |-> 4, id |-> TieBreak(d, type, m4)]
      ELSE [rule |-> 5, id |-> NONE]

\* nextval() of a SERIAL sequence
NextVal(seq, table) == seq[table] + 1

\* the constraints an INSERT into a canonical table must pass
EntityInsertOk(type, rows) ==
  /\ PkeyUnique(rows)
  /\ type = "company" => CompaniesCikUnique(rows)

\* the constraints an INSERT into synonyms must pass
SynonymInsertOk(rows) == PkeyUnique(rows) /\ SynonymsUnique(rows)

\* rule (5): INSERT the canonical row, then INSERT the observed name as its
\* Synonym.  ok = FALSE when a constraint rejects either statement; the
\* sequences advance either way (nextval is never rolled back).
ResolveCreate(d, seq, type, name, key, t) ==
  LET tbl  == TableOf(type)
      eid  == NextVal(seq, tbl)
      sid  == NextVal(seq, "synonyms")
      erow == NewEntityRow(type, eid, name, key, t)
      srow == [id |-> sid, entity_type |-> type, canonical_id |-> eid,
               name |-> name, created_at |-> t]
      ents == d[tbl] \cup {erow}
      syns == d.synonyms \cup {srow}
      ok   == EntityInsertOk(type, ents) /\ SynonymInsertOk(syns)
  IN  [ok  |-> ok,
       id  |-> eid,
       db  |-> IF ok THEN [d EXCEPT ![tbl] = ents, !.synonyms = syns] ELSE d,
       seq |-> [seq EXCEPT ![tbl] = eid, !.synonyms = sid]]

\* one sequential resolver call: look up, create when nothing matches
Resolve(d, seq, type, name, key, t) ==
  LET hit == ResolveLookup(d, type, name, key)
  IN  IF hit.rule < 5
      THEN [ok |-> TRUE, rule |-> hit.rule, id |-> hit.id,
            db |-> d, seq |-> seq]
      ELSE LET c == ResolveCreate(d, seq, type, name, key, t)
           IN  [ok |-> c.ok, rule |-> 5, id |-> c.id,
                db |-> c.db, seq |-> c.seq]

(***************************************************************************)
(* Triggers and row updates.                                               *)
(***************************************************************************)
\* a trigger function that also resets the creation timestamp
update_updated_at_column_CreatedAt(new, t) ==
  [new EXCEPT !.created_at = t, !.updated_at = t]

\* update_updated_at_column(): NEW.updated_at = NOW()
update_updated_at_column(new, t) == [new EXCEPT !.updated_at = t]

\* BEFORE UPDATE triggers: only companies has one (update_companies_updated_at)
BeforeUpdate(table, new, t) ==
  IF table = "companies" THEN update_updated_at_column(new, t) ELSE new

\* UPDATE table SET <new> WHERE id = new.id
SqlUpdate(d, table, new, t) ==
  [d EXCEPT ![table] =
     {r \in @ : r.id # new.id} \cup {BeforeUpdate(table, new, t)}]

(***************************************************************************)
(* Record Normalizer (spec.md 4.2): raw source record -> canonical shape,  *)
(* or Malformed when a mandatory identifier is missing.                    *)
(***************************************************************************)
Sources == {"ctgov", "fda", "edgar"}

\* free-text phase of the registry -> the phase enum
CoercePhase(text) ==
  CASE text = "PHASE1"        -> "1"
    [] text = "PHASE1/PHASE2" -> "1/2"
    [] text = "PHASE2"        -> "2"
    [] text = "PHASE2/PHASE3" -> "2/3"
    [] text = "PHASE3"        -> "3"
    [] text = "PHASE4"        -> "4"
    [] OTHER                  -> "N/A"

\* the record is skipped, with its reason code
Malformed == [kind |-> "malformed", reason |-> "missing_identifier"]

Normalize(source, raw) ==
  CASE source = "ctgov" ->
         IF raw.nct_id = NULL THEN Malformed
         ELSE [kind |-> "trial", id |-> raw.nct_id,
               phase |-> CoercePhase(raw.phase), status |-> raw.status,
               refs |-> <<[type |-> "company", name |-> raw.sponsor,
                           key |-> NULL]>>]
    [] source = "fda" ->
         IF raw.application_number = NULL THEN Malformed
         ELSE [kind |-> "approval", agency |-> raw.agency,
               application_number |-> raw.application_number,
               refs |-> <<[type |-> "drug", name |-> raw.drug, key |-> NULL],
                          [type |-> "indication", name |-> raw.indication,
                           key |-> NULL]>>]
    [] source = "edgar" ->
         IF raw.cik = NULL THEN Malformed
         ELSE [kind |-> "filing", cik |-> raw.cik,
               form_type |-> raw.form_type, filing_date |-> raw.filing_date,
               refs |-> <<[type |-> "company", name |-> raw.company,
                           key |-> raw.cik]>>]

(***************************************************************************)
(* Upsert Writer (spec.md 4.4): insert when the natural key is unseen,     *)
(* update in place when seen.                                              *)
(***************************************************************************)
\* trials: id is the PRIMARY KEY, so the upsert is one statement,
\* INSERT ... ON CONFLICT (id) DO UPDATE; fetched_at is the local fetch time
UpsertTrial(d, seq, rec, ids, t) ==
  LET new == [id |-> rec.id, phase |-> rec.phase, status |-> rec.status,
              sponsor_company_id |-> ids[1], fetched_at |-> t]
      ok  == TrialsPhaseCheck(new)
  IN  [ok  |-> ok,
       db  |-> IF ok
               THEN [d EXCEPT !.trials =
                       {r \in @ : r.id # new.id} \cup {new}]
               ELSE d,
       seq |-> seq]

\* approvals: SERIAL id, no unique constraint on the natural key
\* (agency, application_number): look the key up, then UPDATE or INSERT
SameApproval(r, rec) ==
  r.agency = rec.agency /\ r.application_number = rec.application_number

\* approvals.agency CHECK (agency IN ('FDA','EMA'))
ApprovalsAgencyCheck(agency) == agency = NULL \/ agency \in {"FDA", "EMA"}

UpsertApproval(d, seq, rec, ids, t) ==
  LET seen == {r \in d.approvals : SameApproval(r, rec)}
      nid  == NextVal(seq, "approvals")
  IN  IF ~ApprovalsAgencyCheck(rec.agency)
      THEN [ok |-> FALSE, db |-> d, seq |-> seq]
      ELSE IF seen # {}
      THEN [ok  |-> TRUE,
            db  |-> [d EXCEPT !.approvals =
                       {IF SameApproval(r, rec)
                        THEN [r EXCEPT !.drug_id = ids[1],
                                       !.indication_id = ids[2]]
                        ELSE r : r \in @}],
            seq |-> seq]
      ELSE [ok  |-> TRUE,
            db  |-> [d EXCEPT !.approvals = @ \cup
                       {[id |-> nid, agency |-> rec.agency,
                         application_number |-> rec.application_number,
                         drug_id |-> ids[1], indication_id |-> ids[2],
                         created_at |-> t]}],
            seq |-> [seq EXCEPT !.approvals = nid]]

\* filings: SERIAL id, no unique constraint on the natural key
\* (cik, form_type, filing_date)
SameFiling(r, rec) ==
  /\ r.cik = rec.cik
  /\ r.form_type = rec.form_type
  /\ r.filing_date = rec.filing_date

UpsertFiling(d, seq, rec, ids, t) ==
  LET seen == {r \in d.filings : SameFiling(r, rec)}
      nid  == NextVal(seq, "filings")
  IN  IF seen # {}
      THEN [ok  |-> TRUE,
            db  |-> [d EXCEPT !.filings =
                       {IF SameFiling(r, rec)
                        THEN [r EXCEPT !.company_id = ids[1]]
                        ELSE r : r \in @}],
            seq |-> seq]
      ELSE [ok  |-> TRUE,
            db  |-> [d EXCEPT !.filings = @ \cup
                       {[id |-> nid, company_id |-> ids[1], cik |-> rec.cik,
                         form_type |-> rec.form_type,
                         filing_date |-> rec.filing_date,
                         created_at |-> t]}],
            seq |-> [seq EXCEPT !.filings = nid]]

Upsert(d, seq, rec, ids, t) ==
  CASE rec.kind = "trial"    -> UpsertTrial(d, seq, rec, ids, t)
    [] rec.kind = "approval" -> UpsertApproval(d, seq, rec, ids, t)
    [] rec.kind = "filing"   -> UpsertFiling(d, seq, rec, ids, t)

\* the lookups for every entity a record references
LookupRefs(d, rec) ==
  [i \in 1..Len(rec.refs) |->
     ResolveLookup(d, rec.refs[i].type, rec.refs[i].name, rec.refs[i].key)]

\* one referenced entity: created when its lookup found nothing; a matched
\* row is updated (spec.md 3: "updated on subsequent matches"), which fires
\* the table's BEFORE UPDATE trigger
ApplyRef(st, ref, hit, t) ==
  IF ~st.ok THEN st
  ELSE IF hit.rule = 5
  THEN LET c == ResolveCreate(st.db, st.seq, ref.type, ref.name, ref.key, t)
       IN  [ok |-> c.ok, db |-> c.db, seq |-> c.seq,
            ids |-> Append(st.ids, c.id)]
  ELSE LET tbl  == TableOf(ref.type)
           rows == {r \in st.db[tbl] : r.id = hit.id}
       IN  [ok  |-> TRUE,
            db  |-> IF rows = {} THEN st.db
                    ELSE SqlUpdate(st.db, tbl, CHOOSE r \in rows : TRUE, t),
            seq |-> st.seq,
            ids |-> Append(st.ids, hit.id)]

RECURSIVE ApplyRefs(_, _, _, _, _)
ApplyRefs(st, refs, hits, i, t) ==
  IF i > Len(refs) THEN st
  ELSE ApplyRefs(ApplyRef(st, refs[i], hits[i], t), refs, hits, i + 1, t)

\* resolve-or-create every referenced entity, then upsert the record.
\* ok = FALSE when a constraint rejected a statement (WriteConflict).
ApplyRecord(d, seq, rec, hits, t) ==
  LET st == ApplyRefs([ok |-> TRUE, db |-> d, seq |-> seq, ids |-> <<>>],
                      rec.refs, hits, 1, t)
  IN  IF ~st.ok THEN [ok |-> FALSE, db |-> d, seq |-> st.seq, ids |-> <<>>]
      ELSE LET w == Upsert(st.db, st.seq, rec, st.ids, t)
           IN  [ok |-> w.ok, db |-> IF w.ok THEN w.db ELSE d, seq |-> w.seq,
                ids |-> IF w.ok THEN st.ids ELSE <<>>]

(***************************************************************************)
(* State.                                                                  *)
(***************************************************************************)
VARIABLES
  db,              \* committed rows of the canonical and fact tables
  seq,             \* SERIAL sequences
  now,             \* logical clock read by NOW()
  etl_executions,  \* rows of public.etl_executions
  user_roles,      \* rows of public.user_roles
  sql_result,      \* outcome of the last statement an authenticated user issued
  runs,            \* the ingestion runs: position and local state of each
  http,            \* admin-etl: the last request served and its response
  rpc_calls,       \* number of refresh_search_mv() invocations
  call,            \* SpecResolver: the last resolver call and its result
  twice,           \* SpecTwice: the store after each application of a batch
  page,            \* AdminPage: the state of the React component
  links,           \* rows of the many-to-many link tables
  nav,             \* Navigation: the state of the React component
  search           \* SearchBar: the state of the React component

vars ==
  <<db, seq, now, etl_executions, user_roles, sql_result, runs, http,
    rpc_calls, call, twice, page, links, nav, search>>

(***************************************************************************)
(* Roles and row-level security (user-roles migration).                    *)
(***************************************************************************)
Users == {"u_owner", "u_admin", "u_user"}

SeedRoles ==
  {[user_id |-> "u_owner", role |-> "owner"],
   [user_id |-> "u_admin", role |-> "admin"],
   [user_id |-> "u_user",  role |-> "user"]}

\* public.has_role(_user_id, _role)
has_role(roles, user_id, role) ==
  \E r \in roles : r.user_id = user_id /\ r.role = role

\* a single FOR ALL policy for owners and admins instead of the two
EtlExecutionsPolicy_ForAll(roles, uid, cmd) ==
  has_role(roles, uid, "owner") \/ has_role(roles, uid, "admin")

\* the two policies and a third, FOR DELETE, for owners
EtlExecutionsPolicy_WithDelete(roles, uid, cmd) ==
  CASE cmd = "SELECT" -> has_role(roles, uid, "owner") \/ has_role(roles, uid, "admin")
    [] cmd = "INSERT" -> has_role(roles, uid, "owner") \/ has_role(roles, uid, "admin")
    [] cmd = "DELETE" -> has_role(roles, uid, "owner")
    [] OTHER          -> FALSE

\* The policies on etl_executions.  RLS is enabled and there are exactly two
\* policies, FOR SELECT and FOR INSERT; a command without a policy is denied.
EtlExecutionsPolicy(roles, uid, cmd) ==
  CASE cmd = "SELECT" -> has_role(roles, uid, "owner") \/ has_role(roles, uid, "admin")
    [] cmd = "INSERT" -> has_role(roles, uid, "owner") \/ has_role(roles, uid, "admin")
    [] OTHER          -> FALSE

\* gen_random_uuid(): the ids an execution record can get
Uuids == 1..MaxRuns

StatusTexts == {"running", "success", "failed"}

\* the table without its primary key
EtlExecutionsPkey_Dropped(rows, row) == TRUE

\* etl_executions.id UUID PRIMARY KEY: an INSERT whose id is present fails
EtlExecutionsPkey(rows, row) == \A r \in rows : r.id # row.id

\* INSERT INTO etl_executions: started_at DEFAULT now(), the rest as given
NewExecution(id, etl_type, status, who, t) ==
  [id |-> id, etl_type |-> etl_type, status |-> status, started_at |-> t,
   completed_at |-> NONE, executed_by |-> who, error_message |-> NULL,
   records_processed |-> NONE]

\* A statement an authenticated user sends through the API, subject to the
\* policies: INSERT of a row, or UPDATE of the status / DELETE of a row.
UserStatement(uid, cmd, id, status) ==
  /\ LET allowed == EtlExecutionsPolicy(user_roles, uid, cmd)
         row     == NewExecution(id, "ctgov", status, uid, now)
         rows    == {r \in etl_executions : r.id = id}
     IN  CASE cmd = "INSERT" ->
                IF allowed /\ EtlExecutionsPkey(etl_executions, row)
                THEN /\ etl_executions' = etl_executions \cup {row}
                     /\ sql_result' = [cmd |-> cmd,
                                       rows |-> 1]
                ELSE /\ UNCHANGED etl_executions
                     /\ sql_result' = [cmd |-> cmd,
                                       rows |-> 0]
           [] cmd = "UPDATE" ->
                /\ etl_executions' =
                     IF allowed
                     THEN {IF r.id = id THEN [r EXCEPT !.status = status]
                           ELSE r : r \in etl_executions}
                     ELSE etl_executions
                /\ sql_result' = [cmd |-> cmd,
                                  rows |-> IF allowed THEN Cardinality(rows)
                                           ELSE 0]
           [] cmd = "DELETE" ->
                /\ etl_executions' =
                     IF allowed THEN etl_executions \ rows
                     ELSE etl_executions
                /\ sql_result' = [cmd |-> cmd,
                                  rows |-> IF allowed THEN Cardinality(rows)
                                           ELSE 0]
  /\ UNCHANGED <<db, seq, now, user_roles, runs, http, rpc_calls, call, twice, page, links, nav,
                 search>>

(***************************************************************************)
(* Chunk transactions (spec.md 4.4, 5).  The store runs each chunk as one  *)
(* READ COMMITTED transaction: a run sees the committed rows and its own   *)
(* pending writes, never another run's pending writes; a statement that    *)
(* needs a row or a unique key another transaction holds waits for it.     *)
(***************************************************************************)
NoTx == [ins |-> EmptyDb, upd |-> EmptyDb]

\* the rows a transaction sees
View(d, tx) ==
  [t \in Tables |->
     {r \in d[t] : r.id \notin Ids(tx.upd[t])} \cup tx.upd[t] \cup tx.ins[t]]

\* the pending writes that turn the committed rows d into the view v
Delta(d, v) ==
  [ins |-> [t \in Tables |-> {r \in v[t] : r.id \notin Ids(d[t])}],
   upd |-> [t \in Tables |-> {r \in v[t] : r.id \in Ids(d[t]) /\ r \notin d[t]}]]

Written(tx, t) == tx.ins[t] \cup tx.upd[t]

\* two transactions want the same row (row lock, primary key) or the same
\* unique key (synonyms (entity_type, name), companies.cik)
Conflicts(a, b) ==
  \/ \E t \in Tables : Ids(Written(a, t)) \cap Ids(Written(b, t)) # {}
  \/ \E x \in Written(a, "synonyms"), y \in Written(b, "synonyms") :
       x.entity_type = y.entity_type /\ x.name = y.name
  \/ \E x \in Written(a, "companies"), y \in Written(b, "companies") :
       x.cik # NULL /\ x.cik = y.cik

(***************************************************************************)
(* Source records.                                                         *)
(***************************************************************************)
RawTrials ==
  {[nct_id |-> "NCT1", phase |-> "PHASE3", status |-> "Recruiting",
    sponsor |-> N_Ac],
   [nct_id |-> "NCT1", phase |-> "PHASE3", status |-> "Active",
    sponsor |-> N_Ac],
   [nct_id |-> NULL, phase |-> "PHASE2", status |-> "Recruiting",
    sponsor |-> N_B]}

RawApprovals ==
  {[agency |-> "FDA", application_number |-> "NDA1", drug |-> N_Ax,
    indication |-> N_B],
   [agency |-> "FDA", application_number |-> "NDA1", drug |-> N_B,
    indication |-> N_Ax],
   [agency |-> "FDA", application_number |-> NULL, drug |-> N_Ax,
    indication |-> N_B]}

RawFilings ==
  {[cik |-> "K1", form_type |-> "10-K", filing_date |-> 1, company |-> N_Ac],
   [cik |-> NULL, form_type |-> "10-K", filing_date |-> 1, company |-> N_B]}

Raw(source) ==
  CASE source = "ctgov" -> RawTrials
    [] source = "fda"   -> RawApprovals
    [] source = "edgar" -> RawFilings
    [] OTHER            -> {}

SeqsUpTo(S, n) == UNION {[1..k -> S] : k \in 0..n}

\* what one fetch of a source can return
Batches(source) == SeqsUpTo(Raw(source), MaxBatch)

(***************************************************************************)
(* Ingestion runs (spec.md 4.5, 5): each run is one sequential pipeline,   *)
(* wrapped by the Execution Tracker; several runs may be in progress.      *)
(***************************************************************************)
Runs == 1..MaxRuns

IdleRun ==
  [pc |-> "idle", id |-> NONE, source |-> NULL, batch |-> <<>>, pos |-> 1,
   hits |-> <<>>, tx |-> NoTx, tx_t |-> 0, napplied |-> 0, clog |-> <<>>,
   log |-> <<>>,
   processed |-> 0, skipped |-> 0, failed |-> 0, error |-> NULL,
   limited |-> 0, backoffs |-> 0]

ActivePcs == {"fetch", "lookup", "apply", "commit", "complete"}

\* last position of the chunk that holds position pos
ChunkEndOf(pos, len) ==
  LET e == (((pos - 1) \div ChunkSize) + 1) * ChunkSize
  IN  IF e < len THEN e ELSE len

\* well-formed records of batch[a..b]
ValidIn(source, batch, a, b) ==
  Cardinality({i \in a..b : Normalize(source, batch[i]).kind # "malformed"})

\* after the record at run.pos: next record of the chunk, or commit
Advance(run) ==
  [run EXCEPT !.pos = @ + 1,
              !.pc = IF run.pos = ChunkEndOf(run.pos, Len(run.batch))
                     THEN "commit" ELSE "lookup"]

\* after a chunk ended at position e: next chunk, or completion
NextChunk(run, e, t) ==
  [run EXCEPT !.pos = e + 1, !.tx = NoTx, !.tx_t = t, !.napplied = 0,
              !.hits = <<>>, !.clog = <<>>,
              !.pc = IF e + 1 > Len(run.batch) THEN "complete" ELSE "lookup"]

\* a writer that gives the run up when a chunk fails
AbortChunk_StopRun(run, cause, t) ==
  [run EXCEPT !.failed = @ + 1, !.error = cause, !.tx = NoTx,
              !.pc = "complete"]

\* the chunk's transaction is rolled back: its records are reported failed
AbortChunk(run, cause, t) ==
  LET e == ChunkEndOf(run.pos, Len(run.batch))
      n == run.napplied + ValidIn(run.source, run.batch, run.pos, e)
  IN  NextChunk([run EXCEPT !.failed = @ + n,
                            !.error = IF @ = NULL THEN cause ELSE @,
                            !.log = @ \o [i \in 1..Len(run.clog) |->
                                            [run.clog[i] EXCEPT !.id = NONE]]],
                e, t)

\* Execution Tracker, run start: a new record in running state
StartRun(r, source, id) ==
  LET row == NewExecution(id, source, "running", NULL, now)
  IN  /\ runs[r].pc = "idle"
      /\ EtlExecutionsPkey(etl_executions, row)
      /\ etl_executions' = etl_executions \cup {row}
      /\ runs' = [runs EXCEPT ![r] =
                    [IdleRun EXCEPT !.pc = "fetch", !.id = id,
                                    !.source = source]]
      /\ UNCHANGED <<db, seq, now, user_roles, sql_result, http, rpc_calls,
                     call, twice, page, links, nav, search>>

\* Source Client: the fetch returns a batch
Fetch(r, batch) ==
  /\ runs[r].pc = "fetch"
  /\ runs' = [runs EXCEPT ![r] =
                [@ EXCEPT !.batch = batch, !.pos = 1, !.tx_t = now,
                          !.pc = IF batch = <<>> THEN "complete"
                                 ELSE "lookup"]]
  /\ UNCHANGED <<db, seq, now, etl_executions, user_roles, sql_result, http,
                 rpc_calls, call, twice, page, links, nav, search>>

\* Source Client: SourceUnavailable aborts the whole run
FetchFail(r) ==
  /\ runs[r].pc = "fetch"
  /\ runs' = [runs EXCEPT ![r] =
                [@ EXCEPT !.error = "SourceUnavailable", !.pc = "complete"]]
  /\ UNCHANGED <<db, seq, now, etl_executions, user_roles, sql_result, http,
                 rpc_calls, call, twice, page, links, nav, search>>

\* Normalizer, then the resolver's lookups for the record at pos
Lookup(r) ==
  LET run == runs[r]
      rec == Normalize(run.source, run.batch[run.pos])
  IN  /\ run.pc = "lookup"
      /\ runs' = [runs EXCEPT ![r] =
                    IF rec.kind = "malformed"
                    THEN Advance([run EXCEPT !.skipped = @ + 1])
                    ELSE [run EXCEPT !.pc = "apply",
                            !.hits = LookupRefs(View(db, run.tx), rec)]]
      /\ UNCHANGED <<db, seq, now, etl_executions, user_roles, sql_result,
                     http, rpc_calls, call, twice, page, links, nav, search>>

\* what the statements of the record at pos would do in run r's transaction
Attempt(r) ==
  LET run == runs[r]
      rec == Normalize(run.source, run.batch[run.pos])
  IN  ApplyRecord(View(db, run.tx), seq, rec, run.hits, run.tx_t)

\* run r's statements wait for a lock another run's transaction holds
WaitsFor(r, q) ==
  /\ q # r
  /\ runs[r].pc = "apply"
  /\ Attempt(r).ok
  /\ Conflicts(Delta(db, Attempt(r).db), runs[q].tx)

\* what the run learnt from resolving the references of the record at pos:
\* the rule that decided each lookup and the canonical id the record was
\* written with (NONE when its chunk was rolled back)
NoResult == [ok |-> FALSE, ids |-> <<>>]

Resolutions(run, res) ==
  LET rec == Normalize(run.source, run.batch[run.pos])
  IN  [i \in 1..Len(rec.refs) |->
         [type |-> rec.refs[i].type, name |-> rec.refs[i].name,
          rule |-> run.hits[i].rule,
          id   |-> IF res.ok THEN res.ids[i] ELSE NONE]]

\* two transactions wait for each other: the store aborts one of them
Deadlocked(r) == \E q \in Runs : WaitsFor(r, q) /\ WaitsFor(q, r)

\* Resolver (create) and Upsert Writer for the record at pos.  The
\* statements wait while another transaction holds what they need; they
\* fail, and the chunk is rolled back, on a constraint violation or when the
\* store picks this transaction as the victim of a deadlock.
Apply(r) ==
  LET run == runs[r]
      res == Attempt(r)
  IN  /\ run.pc = "apply"
      /\ (\A q \in Runs : ~WaitsFor(r, q)) \/ Deadlocked(r)
      /\ seq' = res.seq
      /\ runs' = [runs EXCEPT ![r] =
                    IF res.ok /\ ~Deadlocked(r)
                    THEN Advance([run EXCEPT !.tx = Delta(db, res.db),
                                             !.napplied = @ + 1,
                                             !.clog = @ \o Resolutions(run, res)])
                    ELSE AbortChunk([run EXCEPT
                                       !.clog = @ \o Resolutions(run, NoResult)],
                                    "WriteConflict", now)]
      /\ UNCHANGED <<db, now, etl_executions, user_roles, sql_result, http,
                     rpc_calls, call, twice, page, links, nav, search>>

\* COMMIT of the chunk's transaction
Commit(r) ==
  LET run == runs[r]
  IN  /\ run.pc = "commit"
      /\ db' = View(db, run.tx)
      /\ runs' = [runs EXCEPT ![r] =
                    NextChunk([run EXCEPT !.processed = @ + run.napplied,
                                          !.log = @ \o run.clog],
                              run.pos - 1, now)]
      /\ UNCHANGED <<seq, now, etl_executions, user_roles, sql_result, http,
                     rpc_calls, call, twice, page, links, nav, search>>

\* a tracker that fails a run for a skipped record
FinalStatus_SkipsFail(run) ==
  IF run.error # NULL \/ run.failed > 0 \/ run.skipped > 0
  THEN "failed" ELSE "success"

\* the final status of a run
FinalStatus(run) ==
  IF run.error # NULL \/ run.failed > 0 THEN "failed" ELSE "success"

\* Execution Tracker, completion: UPDATE etl_executions ... WHERE id = run id
CompleteRecord(rows, run, t) ==
  {IF x.id = run.id
   THEN [x EXCEPT !.status = FinalStatus(run), !.completed_at = t,
                  !.records_processed = run.processed,
                  !.error_message = run.error]
   ELSE x : x \in rows}

Complete(r) ==
  /\ runs[r].pc = "complete"
  /\ etl_executions' = CompleteRecord(etl_executions, runs[r], now)
  /\ runs' = [runs EXCEPT ![r] = [@ EXCEPT !.pc = "done"]]
  /\ UNCHANGED <<db, seq, now, user_roles, sql_result, http, rpc_calls, call,
                 twice, page, links, nav, search>>

\* the process dies before the completion step: its open transaction is
\* rolled back, its local state is gone and its record stays as it is
Crash(r) ==
  /\ runs[r].pc \in ActivePcs
  /\ runs' = [runs EXCEPT ![r] =
                [IdleRun EXCEPT !.pc = "crashed", !.id = runs[r].id,
                                !.source = runs[r].source]]
  /\ UNCHANGED <<db, seq, now, etl_executions, user_roles, sql_result, http,
                 rpc_calls, call, twice, page, links, nav, search>>

\* time passes
Tick ==
  /\ now < MaxClock
  /\ now' = now + 1
  /\ UNCHANGED <<db, seq, etl_executions, user_roles, sql_result, runs, http,
                 rpc_calls, call, twice, page, links, nav, search>>

NoCall ==
  [n |-> 0, type |-> NULL, name |-> <<>>, key |-> NULL, rule |-> 0,
   id |-> NONE, again |-> FALSE, minted |-> {}]
NoHttp ==
  [req |-> [method |-> NULL, authorization |-> NULL, etlType |-> NULL,
            caller |-> NULL],
   status |-> 0, body |-> [text |-> ""], rpc |-> FALSE, rpc_result |-> NULL]
\* the link tables hold no row before anything is written
NoLinks ==
  [trial_indications |-> {}, drug_indications |-> {}, drug_targets |-> {}]

\* Navigation after its first render: useState initial values, the effect
\* has called getSession() and subscribed to auth changes
NoNav ==
  [user |-> NULL, isOwner |-> FALSE, auth |-> NULL, initial |-> "pending",
   lookups |-> <<>>, events |-> 0]

\* SearchBar after its first render and the first run of the query effect
NoSearch ==
  [query |-> <<>>, results |-> <<>>, showResults |-> FALSE,
   effect |-> FALSE, clicked |-> <<>>, called |-> FALSE]

\* AdminPage after its first render: useState initial values
NoPage ==
  [executions |-> <<>>, runningETL |-> NULL, calls |-> <<>>,
   user |-> NULL, isOwner |-> FALSE, loading |-> TRUE,
   auth |-> "session", path |-> NULL, route |-> "/admin"]

NoTwice ==
  [n |-> 0, source |-> NULL, batch |-> <<>>, db1 |-> EmptyDb,
   t1 |-> NONE, count1 |-> NONE, count2 |-> NONE]

Init ==
  /\ db = EmptyDb
  /\ seq = ZeroSeq
  /\ now = 0
  /\ etl_executions = {}
  /\ user_roles = SeedRoles
  /\ sql_result = [cmd |-> NULL, rows |-> 0]
  /\ runs = [r \in Runs |-> IdleRun]
  /\ http = NoHttp
  /\ rpc_calls = 0
  /\ call = NoCall
  /\ twice = NoTwice
  /\ page = NoPage
  /\ links = NoLinks
  /\ nav = NoNav
  /\ search = NoSearch

Next ==
  \/ \E r \in Runs, s \in Sources, id \in Uuids : StartRun(r, s, id)
  \/ \E r \in Runs : \E b \in Batches(runs[r].source) : Fetch(r, b)
  \/ \E r \in Runs : FetchFail(r)
  \/ \E r \in Runs : Lookup(r)
  \/ \E r \in Runs : Apply(r)
  \/ \E r \in Runs : Commit(r)
  \/ \E r \in Runs : Complete(r)
  \/ \E r \in Runs : Crash(r)
  \/ Tick
  \/ \E u \in Users, id \in Uuids, st \in StatusTexts :
       UserStatement(u, "UPDATE", id, st)
  \/ \E u \in Users, id \in Uuids : UserStatement(u, "DELETE", id, NULL)

Spec == Init /\ [][Next]_vars

(***************************************************************************)
(* Execution records.                                                      *)
(***************************************************************************)
Terminal == {"success", "failed"}

RecordsOf(id) == {x \in etl_executions : x.id = id}

Started(r) == runs[r].pc # "idle"

\* C1: every execution record follows running -> success | running ->
\* failed: whatever a run, a crash or a user's statement does next, a record
\* keeps its status, or goes from running to success or to failed; so a
\* success or failed record never changes and none returns to running.
C1_StatusStateMachine ==
  [][\A x \in etl_executions : \A y \in etl_executions' :
       x.id = y.id =>
         \/ y.status = x.status
         \/ x.status = "running" /\ y.status \in Terminal]_vars

\* C1 witness: one run has ended and its record is terminal, the other run
\* crashed and its record is still running, and a user's UPDATE of an
\* execution record has since been attempted
C1_Witness ==
  /\ \E x \in etl_executions : x.status \in Terminal
  /\ \E r \in Runs :
       /\ runs[r].pc = "crashed"
       /\ \E x \in etl_executions :
            x.id = runs[r].id /\ x.status = "running"
  /\ sql_result.cmd = "UPDATE"

\* C3: each started run has exactly one execution record, under an id no
\* other run has; the record is running (no end timestamp) until the run
\* completes, and completion puts the end timestamp, the final status, the
\* processed count and the error summary in that same record: the table
\* never holds more records than runs were started.
C3_OneRecordPerRun ==
  /\ \A r \in Runs : Started(r) =>
       /\ Cardinality(RecordsOf(runs[r].id)) = 1
       /\ \A q \in Runs : (q # r /\ Started(q)) => runs[q].id # runs[r].id
       /\ \A x \in RecordsOf(runs[r].id) :
            /\ x.etl_type = runs[r].source
            /\ IF runs[r].pc = "done"
               THEN /\ x.status \in Terminal
                    /\ x.status = "failed" <=>
                         (runs[r].error # NULL \/ runs[r].failed > 0)
                    /\ x.completed_at # NONE
                    /\ x.completed_at >= x.started_at
                    /\ x.records_processed = runs[r].processed
                    /\ x.error_message = runs[r].error
                    /\ x.status = "failed" => x.error_message # NULL
               ELSE /\ x.status = "running"
                    /\ x.completed_at = NONE
                    /\ x.records_processed = NONE
  /\ Cardinality(etl_executions) = Cardinality({r \in Runs : Started(r)})

\* C3 witness: two runs completed, one with records processed and status
\* success, one failed, each in its own record
C3_Witness ==
  \E r \in Runs, q \in Runs :
    /\ runs[r].pc = "done" /\ runs[q].pc = "done"
    /\ \E x \in RecordsOf(runs[r].id) :
         x.status = "success" /\ x.records_processed >= 1
    /\ \E x \in RecordsOf(runs[q].id) : x.status = "failed"

\* C5: in every store state each natural key has at most one row: trials
\* by id, approvals by (agency, application_number), filings by
\* (cik, form_type, filing_date).
C5_NaturalKeysUnique ==
  /\ \A a \in db.trials, b \in db.trials : a.id = b.id => a = b
  /\ \A a \in db.approvals, b \in db.approvals :
       (a.agency = b.agency /\ a.application_number = b.application_number)
         => a = b
  /\ \A a \in db.filings, b \in db.filings :
       (a.cik = b.cik /\ a.form_type = b.form_type
          /\ a.filing_date = b.filing_date) => a = b

\* C7: when two runs both found the same company name unseen (rule 5
\* decided both lookups) and both have finished, there is exactly one
\* Company row and one Synonym row for the name and both runs wrote their
\* records with that row's id.
C7_ConcurrentMintOnce ==
  \A r \in Runs, q \in Runs :
    (r # q /\ runs[r].pc = "done" /\ runs[q].pc = "done") =>
      \A i \in 1..Len(runs[r].log), j \in 1..Len(runs[q].log) :
        LET e == runs[r].log[i]
            f == runs[q].log[j]
        IN  (e.type = "company" /\ f.type = "company" /\ e.name = f.name
               /\ e.rule = 5 /\ f.rule = 5) =>
              /\ Cardinality({c \in db.companies :
                                c.canonical_name = e.name}) = 1
              /\ Cardinality({x \in db.synonyms :
                                x.entity_type = "company"
                                  /\ x.name = e.name}) = 1
              /\ e.id = f.id
              /\ \E c \in db.companies : c.id = e.id

(***************************************************************************)
(* The admin-etl edge function (supabase/functions/admin-etl/index.ts).    *)
(* A request carries its method, its Authorization header (NULL when the   *)
(* header is absent) and the last segment of its path; caller is who sent  *)
(* it, which the handler never looks at.                                   *)
(***************************************************************************)
Callers == Users \cup {"anon"}

Methods == {"OPTIONS", "POST", "GET"}

AuthHeaders == {NULL, "", "Bearer token"}

EtlTypes == {"ctgov", "fda", "edgar", "refresh-search", "bogus"}

Requests ==
  [method : Methods, authorization : AuthHeaders, etlType : EtlTypes,
   caller : Callers]

\* what supabaseClient.rpc('refresh_search_mv') can do: resolve without an
\* error, resolve with an error, or reject
RpcOutcomes == {"ok", "error", "reject"}

TriggerMessage(etlType) ==
  CASE etlType = "ctgov" -> "ClinicalTrials.gov ETL triggered successfully"
    [] etlType = "fda"   -> "FDA approvals ETL triggered successfully"
    [] etlType = "edgar" -> "EDGAR filings ETL triggered successfully"

\* the handler with a switch that reports success on every path
AdminEtlResponse_AlwaysSuccess(req, rpc, t) ==
  IF req.method = "OPTIONS"
  THEN [status |-> 200, body |-> [text |-> "ok"], rpc |-> FALSE]
  ELSE IF req.authorization = NULL \/ req.authorization = ""
  THEN [status |-> 401, body |-> [text |-> "Unauthorized"], rpc |-> FALSE]
  ELSE [status |-> 200, body |-> [success |-> TRUE, timestamp |-> t],
        rpc |-> req.etlType = "refresh-search"]

\* the handler without its Authorization test (lines 16-22)
AdminEtlResponse_NoAuthCheck(req, rpc, t) ==
  IF req.method = "OPTIONS"
  THEN [status |-> 200, body |-> [text |-> "ok"], rpc |-> FALSE]
  ELSE [status |-> 200, body |-> [success |-> req.etlType # "bogus"],
        rpc |-> req.etlType = "refresh-search"]

\* serve(async (req) => ...): the response, and whether the RPC was invoked
AdminEtlResponse(req, rpc, t) ==
  IF req.method = "OPTIONS"
  THEN [status |-> 200, body |-> [text |-> "ok"], rpc |-> FALSE]
  ELSE IF req.authorization = NULL \/ req.authorization = ""
  THEN [status |-> 401, body |-> [text |-> "Unauthorized"], rpc |-> FALSE]
  ELSE IF req.etlType \in {"ctgov", "fda", "edgar"}
  THEN [status |-> 200,
        body |-> [success |-> TRUE, message |-> TriggerMessage(req.etlType),
                  timestamp |-> t],
        rpc |-> FALSE]
  ELSE IF req.etlType = "refresh-search"
  THEN CASE rpc = "ok" ->
              [status |-> 200,
               body |-> [success |-> TRUE,
                         message |-> "Search materialized view refreshed successfully",
                         timestamp |-> t],
               rpc |-> TRUE]
         [] rpc = "error" ->
              [status |-> 200,
               body |-> [success |-> FALSE,
                         message |-> "Failed to refresh search view"],
               rpc |-> TRUE]
         [] rpc = "reject" ->
              [status |-> 500,
               body |-> [success |-> FALSE, error |-> "Internal server error"],
               rpc |-> TRUE]
  ELSE [status |-> 200,
        body |-> [success |-> FALSE,
                  message |-> <<"Unknown ETL type", req.etlType,
                                "Available: ctgov, fda, edgar, refresh-search">>],
        rpc |-> FALSE]

\* one request served
AdminEtl(req, rpc) ==
  LET resp == AdminEtlResponse(req, rpc, now)
  IN  /\ resp.rpc => rpc_calls < MaxRequests
      /\ http' = [req |-> req, status |-> resp.status, body |-> resp.body,
                  rpc |-> resp.rpc,
                  rpc_result |-> IF resp.rpc THEN rpc ELSE NULL]
      /\ rpc_calls' = IF resp.rpc THEN rpc_calls + 1 ELSE rpc_calls
      /\ UNCHANGED <<db, seq, now, etl_executions, user_roles, sql_result,
                     runs, call, twice, page, links, nav, search>>

NextAdmin ==
  \/ \E req \in Requests, rpc \in RpcOutcomes : AdminEtl(req, rpc)
  \/ Tick

SpecAdmin == Init /\ [][NextAdmin]_vars

Served == http.status # 0

\* the response reports an ETL trigger as successful
TriggerReported ==
  /\ Served
  /\ http.req.etlType \in Sources
  /\ "success" \in DOMAIN http.body
  /\ http.body.success

\* C2: after an accepted trigger request for ctgov, fda or edgar there is
\* an execution record of that type and the acknowledgement carries its id.
C2_TriggerReturnsRecordId ==
  TriggerReported =>
    \E x \in etl_executions :
      /\ x.etl_type = http.req.etlType
      /\ "execution_id" \in DOMAIN http.body
      /\ http.body.execution_id = x.id

\* C4: the endpoint reports an ETL trigger as successful, or invokes
\* refresh_search_mv, only for a caller who holds the owner role.
C4_OwnerOnly ==
  (TriggerReported \/ (Served /\ http.rpc)) =>
    has_role(user_roles, http.req.caller, "owner")

(***************************************************************************)
(* Sequential use of the resolver: one call after another, on an empty     *)
(* store or on a store that seed data has filled.                          *)
(***************************************************************************)
\* seed data: one company with its filer id, its own name and one alternate
\* name registered as synonyms
SeedDb ==
  [EmptyDb EXCEPT
     !.companies = {[id |-> 1, canonical_name |-> N_Ac, cik |-> "K1",
                     created_at |-> 0, updated_at |-> 0]},
     !.synonyms = {[id |-> 1, entity_type |-> "company", canonical_id |-> 1,
                    name |-> N_Ac, created_at |-> 0],
                   [id |-> 2, entity_type |-> "company", canonical_id |-> 1,
                    name |-> N_Ax, created_at |-> 0]}]

SeedSeq == [ZeroSeq EXCEPT !.companies = 1, !.synonyms = 2]

\* the external keys a source can provide for an entity type
KeysFor(type) == IF type = "drug" THEN {NULL} ELSE Keys \cup {NULL}

\* the entity types the sequential calls ask for: one with an external key
\* column and one without
CalledTypes == {"company", "drug"}

\* one resolver call, start to end; a statement a constraint rejects makes
\* the call fail, and the failed call leaves no row behind
ResolverCall(type, name, key) ==
  LET res == Resolve(db, seq, type, name, key, now)
  IN  /\ call.n < MaxCalls
      /\ db' = res.db
      /\ seq' = res.seq
      /\ call' = [n |-> call.n + 1, type |-> type, name |-> name,
                  key |-> key, rule |-> res.rule,
                  id |-> IF res.ok THEN res.id ELSE NONE,
                  again |-> /\ call.n >= 1
                            /\ type = call.type
                            /\ name = call.name
                            /\ key = call.key,
                  minted |-> IF res.ok /\ res.rule = 5
                             THEN call.minted \cup
                                    {[type |-> type, name |-> name,
                                      id |-> res.id]}
                             ELSE call.minted]
      /\ UNCHANGED <<now, etl_executions, user_roles, sql_result, runs, http,
                     rpc_calls, twice, page, links, nav, search>>

InitResolver ==
  /\ db \in {EmptyDb, SeedDb}
  /\ seq = IF db = SeedDb THEN SeedSeq ELSE ZeroSeq
  /\ now = 0
  /\ etl_executions = {}
  /\ user_roles = SeedRoles
  /\ sql_result = [cmd |-> NULL, rows |-> 0]
  /\ runs = [r \in Runs |-> IdleRun]
  /\ http = NoHttp
  /\ rpc_calls = 0
  /\ call = NoCall
  /\ twice = NoTwice
  /\ page = NoPage
  /\ links = NoLinks
  /\ nav = NoNav
  /\ search = NoSearch

NextResolver ==
  \/ \E type \in CalledTypes, name \in Names :
       \E key \in KeysFor(type) : ResolverCall(type, name, key)
  \/ Tick

SpecResolver == InitResolver /\ [][NextResolver]_vars

\* a step of SpecResolver that is a resolver call
Called == call'.n = call.n + 1

\* the rows of a store that carry the external key of a call
KeyedOthers(d, type, key, id) ==
  {x \in d[TableOf(type)] : key # NULL /\ KeyOf(type, x) = key /\ x.id # id}

C10_Precedence ==
  [][Called =>
       LET type == call'.type
           name == call'.name
           key  == call'.key
           rows == db[TableOf(type)]
           syns == {y \in db.synonyms : y.entity_type = type}
           k == {x.id : x \in {r \in rows : key # NULL /\ KeyOf(type, r) = key}}
           c == {x.id : x \in {r \in rows : NameOf(type, r) = name}}
           y == {x.canonical_id : x \in {r \in syns : r.name = name}}
           z == {x.id : x \in {r \in rows :
                                 NormName(NameOf(type, r)) = NormName(name)}}
                \cup {x.canonical_id :
                        x \in {r \in syns : NormName(r.name) = NormName(name)}}
           first == IF k # {} THEN k
                    ELSE IF c # {} THEN c
                    ELSE IF y # {} THEN y
                    ELSE z
           rule  == IF k # {} THEN 1
                    ELSE IF c # {} THEN 2
                    ELSE IF y # {} THEN 3
                    ELSE IF z # {} THEN 4
                    ELSE 5
       IN  /\ call'.rule = rule
           /\ first # {} => (call'.id \in first /\ db' = db)
           /\ first = {} => /\ call'.id \notin Ids(rows)
                            /\ call'.id \in Ids(db'[TableOf(type)])
           /\ db' # db => first = {}]_vars

\* every rule of the chain has answered a call: the last call was answered
\* by the external key although its name is the canonical name of another
\* entity, and a name was created earlier
C10_Witness ==
  /\ call.n >= 2
  /\ call.rule = 1
  /\ call.minted # {}
  /\ \E a \in db[TableOf(call.type)], b \in db[TableOf(call.type)] :
       /\ a.id = call.id
       /\ KeyOf(call.type, a) = call.key
       /\ b.id # a.id
       /\ NameOf(call.type, b) = call.name

(***************************************************************************)
(* One pipeline applying a batch, alone on the store, and applying the     *)
(* same batch again (spec.md 4.4, 7: idempotence under re-run).            *)
(***************************************************************************)
\* the state a chunk transaction carries from one record to the next
ChunkState(w) == [ok |-> w.ok, db |-> w.db, seq |-> w.seq]

\* one record of a chunk: skipped when malformed, else resolved and written
ApplyNext(st, rec, t) ==
  IF rec.kind = "malformed" THEN st
  ELSE ChunkState(ApplyRecord(st.db, st.seq, rec, LookupRefs(st.db, rec), t))

\* the records of batch[i..e] as one chunk transaction, in order; every
\* statement of the chunk reads NOW() as t, the start of the transaction
RECURSIVE ApplyChunkSeq(_, _, _, _, _, _)
ApplyChunkSeq(st, source, batch, i, e, t) ==
  IF i > e \/ ~st.ok THEN st
  ELSE ApplyChunkSeq(ApplyNext(st, Normalize(source, batch[i]), t),
                     source, batch, i + 1, e, t)

\* the outcome of one chunk: committed, or rolled back and counted failed
EndChunk(acc, c, valid, size) ==
  [db        |-> IF c.ok THEN c.db ELSE acc.db,
   seq       |-> c.seq,
   processed |-> acc.processed + (IF c.ok THEN valid ELSE 0),
   skipped   |-> acc.skipped + (size - valid),
   failed    |-> acc.failed + (IF c.ok THEN 0 ELSE valid)]

\* the chunk that starts at record a
RunChunk(acc, source, batch, a, e, t) ==
  EndChunk(acc,
           ApplyChunkSeq([ok |-> TRUE, db |-> acc.db, seq |-> acc.seq],
                         source, batch, a, e, t),
           ValidIn(source, batch, a, e), e - a + 1)

\* the chunks of a batch one after another: a chunk that fails is rolled
\* back and the run goes on with the next chunk
RECURSIVE ApplyBatchSeq(_, _, _, _, _)
ApplyBatchSeq(acc, source, batch, a, t) ==
  IF a > Len(batch) THEN acc
  ELSE ApplyBatchSeq(
         RunChunk(acc, source, batch, a, ChunkEndOf(a, Len(batch)), t),
         source, batch, ChunkEndOf(a, Len(batch)) + 1, t)

ApplyBatch(d, sq, source, batch, t) ==
  ApplyBatchSeq([db |-> d, seq |-> sq, processed |-> 0, skipped |-> 0,
                 failed |-> 0],
                source, batch, 1, t)

\* further records of the sources: names that differ from a known one in
\* case or spacing only, and a second filer under a known name
ReplayRaw(source) ==
  CASE source = "ctgov" ->
         RawTrials \cup
         {[nct_id |-> "NCT2", phase |-> "EARLY_PHASE1", status |-> "Active",
           sponsor |-> N_ac],
          [nct_id |-> "NCT2", phase |-> "PHASE1/PHASE2",
           status |-> "Active", sponsor |-> N_AcSp]}
    [] source = "fda" -> RawApprovals
    [] source = "edgar" ->
         RawFilings \cup
         {[cik |-> "K2", form_type |-> "8-K", filing_date |-> 1,
           company |-> N_Ac]}

\* what a fetch can return when the same input is to be replayed
TwiceBatches(source) == SeqsUpTo(ReplayRaw(source), MaxTwice) \ {<<>>}

\* first application of a batch
ApplyOnce(source, batch) ==
  LET res == ApplyBatch(db, seq, source, batch, now)
  IN  /\ twice.n = 0
      /\ db' = res.db
      /\ seq' = res.seq
      /\ twice' = [n |-> 1, source |-> source, batch |-> batch,
                   db1 |-> res.db, t1 |-> now, count1 |-> res.processed,
                   count2 |-> NONE]
      /\ UNCHANGED <<now, etl_executions, user_roles, sql_result, runs, http,
                     rpc_calls, call, page, links, nav, search>>

\* second application, with identical input
ApplyAgain ==
  LET res == ApplyBatch(db, seq, twice.source, twice.batch, now)
  IN  /\ twice.n = 1
      /\ db' = res.db
      /\ seq' = res.seq
      /\ twice' = [twice EXCEPT !.n = 2, !.count2 = res.processed]
      /\ UNCHANGED <<now, etl_executions, user_roles, sql_result, runs, http,
                     rpc_calls, call, page, links, nav, search>>

InitTwice == InitResolver

NextTwice ==
  \/ \E s \in Sources : \E b \in TwiceBatches(s) : ApplyOnce(s, b)
  \/ ApplyAgain
  \/ Tick

SpecTwice == InitTwice /\ [][NextTwice]_vars

\* C6 as stated: after the second application the store is in the state the
\* first application left, and both applications report the same count.
C6_IdenticalStoreState ==
  twice.n = 2 => (db = twice.db1 /\ twice.count2 = twice.count1)

\* the columns the store itself stamps with NOW() on every write
StripClock(d) ==
  [d EXCEPT !.companies = {[r EXCEPT !.updated_at = 0] : r \in @},
            !.trials    = {[r EXCEPT !.fetched_at = 0] : r \in @}]

\* C6 amended: after the second application the store holds the same rows
\* with the same values as after the first, apart from companies.updated_at
\* and trials.fetched_at, which carry the time of the last write; both
\* applications report the same count.
C6_IdempotentApartFromClock ==
  twice.n = 2 =>
    /\ StripClock(db) = StripClock(twice.db1)
    /\ \A t \in Tables : Cardinality(db[t]) = Cardinality(twice.db1[t])
    /\ twice.count2 = twice.count1

\* a batch of two records was applied twice, the second time later than the
\* first, and the store differs from the first result only in a timestamp
C6_Witness ==
  /\ twice.n = 2
  /\ Len(twice.batch) = 2
  /\ twice.count1 >= 1
  /\ now > twice.t1
  /\ db # twice.db1

(***************************************************************************)
(* Resolver calls on a store in which two companies answer to one name     *)
(* (spec.md 4.3, tie-break).  Names that differ in case only are distinct  *)
(* canonical names and distinct Synonyms, so two runs that resolve "Ac"    *)
(* and "ac" at the same time, neither seeing the other's uncommitted row,  *)
(* both create their company and both commit.                              *)
(***************************************************************************)
AmbiguousDb ==
  [EmptyDb EXCEPT
     !.companies = {[id |-> 1, canonical_name |-> N_Ac, cik |-> NULL,
                     created_at |-> 0, updated_at |-> 0],
                    [id |-> 2, canonical_name |-> N_ac, cik |-> "K2",
                     created_at |-> 0, updated_at |-> 0]},
     !.synonyms = {[id |-> 1, entity_type |-> "company", canonical_id |-> 1,
                    name |-> N_Ac, created_at |-> 0],
                   [id |-> 2, entity_type |-> "company", canonical_id |-> 2,
                    name |-> N_ac, created_at |-> 0]}]

AmbiguousSeq == [ZeroSeq EXCEPT !.companies = 2, !.synonyms = 2]

InitTieBreak ==
  /\ db = AmbiguousDb
  /\ seq = AmbiguousSeq
  /\ now = 0
  /\ etl_executions = {}
  /\ user_roles = SeedRoles
  /\ sql_result = [cmd |-> NULL, rows |-> 0]
  /\ runs = [r \in Runs |-> IdleRun]
  /\ http = NoHttp
  /\ rpc_calls = 0
  /\ call = NoCall
  /\ twice = NoTwice
  /\ page = NoPage
  /\ links = NoLinks
  /\ nav = NoNav
  /\ search = NoSearch

SpecTieBreak == InitTieBreak /\ [][NextResolver]_vars

\* the ids the deciding rule of a call matches in store d: those of the
\* earliest of the four lookups that matches anything
Candidates(d, type, name, key) ==
  LET rows == d[TableOf(type)]
      syns == {y \in d.synonyms : y.entity_type = type}
      k == {x.id : x \in {r \in rows : key # NULL /\ KeyOf(type, r) = key}}
      c == {x.id : x \in {r \in rows : NameOf(type, r) = name}}
      y == {x.canonical_id : x \in {r \in syns : r.name = name}}
      z == {x.id : x \in {r \in rows :
                            NormName(NameOf(type, r)) = NormName(name)}}
           \cup {x.canonical_id :
                   x \in {r \in syns : NormName(r.name) = NormName(name)}}
  IN  IF k # {} THEN k ELSE IF c # {} THEN c ELSE IF y # {} THEN y ELSE z

\* the candidates that have an external key
KeyedAmong(d, type, ids) ==
  {i \in ids : \E r \in d[TableOf(type)] : r.id = i /\ KeyOf(type, r) # NULL}

ChunkRaw ==
  {[agency |-> "FDA", application_number |-> "NDA1", drug |-> N_Ax,
    indication |-> N_B],
   [agency |-> "PMDA", application_number |-> "NDA2", drug |-> N_Ax,
    indication |-> N_B],
   [agency |-> "EMA", application_number |-> "NDA3", drug |-> N_B,
    indication |-> N_B],
   [agency |-> "FDA", application_number |-> NULL, drug |-> N_Ax,
    indication |-> N_B]}

ChunkBatches == SeqsUpTo(ChunkRaw, MaxChunks)

NextChunks ==
  \/ \E id \in Uuids : StartRun(1, "fda", id)
  \/ \E b \in ChunkBatches : Fetch(1, b)
  \/ Lookup(1)
  \/ Apply(1)
  \/ Commit(1)
  \/ Complete(1)
  \/ Tick

SpecChunks == Init /\ [][NextChunks]_vars

\* position i of the run's batch holds a well-formed record
ValidAt(run, i) == Normalize(run.source, run.batch[i]).kind # "malformed"

\* the store rejects the record at position i
RejectedAt(run, i) ==
  /\ ValidAt(run, i)
  /\ run.batch[i].agency \notin {"FDA", "EMA"}

\* the positions of the chunk that holds position i
ChunkOf(run, i) ==
  {j \in 1..Len(run.batch) :
     (j - 1) \div ChunkSize = (i - 1) \div ChunkSize}

\* the chunk that holds position i holds a record the store rejects
InFailedChunk(run, i) == \E j \in ChunkOf(run, i) : RejectedAt(run, j)

\* the well-formed records of the chunks that committed
Committed(run) ==
  {i \in 1..Len(run.batch) : ValidAt(run, i) /\ ~InFailedChunk(run, i)}

\* C12: a run in which a chunk failed has ended: every record of a chunk
\* that committed, before or after the failed one, is in the store; no
\* record of the failed chunk is; the Execution Record is failed, carries
\* the cause of the failure, and counts the records of the committed chunks
\* only.
C12_ChunkFailureIsolated ==
  LET run == runs[1]
  IN  (run.pc = "done" /\ \E i \in 1..Len(run.batch) : RejectedAt(run, i)) =>
        /\ \A i \in Committed(run) :
             \E a \in db.approvals :
               /\ a.agency = run.batch[i].agency
               /\ a.application_number = run.batch[i].application_number
        /\ \A i \in 1..Len(run.batch) :
             RejectedAt(run, i) =>
               \A a \in db.approvals :
                 a.application_number # run.batch[i].application_number
        /\ Cardinality(db.approvals) =
             Cardinality({run.batch[i].application_number :
                            i \in Committed(run)})
        /\ \A x \in RecordsOf(run.id) :
             /\ x.status = "failed"
             /\ x.error_message = "WriteConflict"
             /\ x.records_processed = Cardinality(Committed(run))
             /\ x.completed_at # NONE
        /\ RecordsOf(run.id) # {}

\* chunk 2 of 3 failed: chunks 1 and 3 are committed and counted
C12_Witness ==
  LET run == runs[1]
  IN  /\ run.pc = "done"
      /\ Len(run.batch) = 3
      /\ ~RejectedAt(run, 1) /\ ValidAt(run, 1)
      /\ RejectedAt(run, 2)
      /\ ~RejectedAt(run, 3) /\ ValidAt(run, 3)
      /\ run.batch[1].application_number # run.batch[3].application_number
      /\ Cardinality(db.approvals) = 2
      /\ \E x \in etl_executions :
           x.id = run.id /\ x.status = "failed" /\ x.records_processed = 2

\* the raw records of the run's batch that lack the mandatory identifier
Lacking(run) ==
  {i \in 1..Len(run.batch) : run.batch[i].application_number = NULL}

\* C13: a run whose batch of n records holds k records without the
\* mandatory identifier, and in which no write failed, has ended: it reports
\* processed = n - k, skipped = k and failed = 0, and its Execution Record
\* is success with n - k records processed and no error.
C13_MalformedSkipped ==
  LET run == runs[1]
      n   == Len(run.batch)
      k   == Cardinality(Lacking(run))
  IN  (run.pc = "done" /\ \A i \in 1..n : ~RejectedAt(run, i)) =>
        /\ run.processed = n - k
        /\ run.skipped = k
        /\ run.failed = 0
        /\ RecordsOf(run.id) # {}
        /\ \A x \in RecordsOf(run.id) :
             /\ x.status = "success"
             /\ x.records_processed = n - k
             /\ x.error_message = NULL

\* a batch of three records, one of them malformed, ended in success with
\* two records processed
C13_Witness ==
  LET run == runs[1]
  IN  /\ run.pc = "done"
      /\ Len(run.batch) = 3
      /\ Cardinality(Lacking(run)) = 1
      /\ run.skipped = 1
      /\ run.processed = 2
      /\ \E x \in etl_executions :
           x.id = run.id /\ x.status = "success" /\ x.records_processed = 2

(***************************************************************************)
(* Source Client under rate limiting (spec.md 4.1, 6): a rate-limit        *)
(* response makes the client wait and retry, up to MaxRetries retries.     *)
(***************************************************************************)
\* a client that retries at once, without waiting
OnRateLimited_NoDelay(run) ==
  IF run.limited < MaxRetries
  THEN [run EXCEPT !.limited = @ + 1]
  ELSE [run EXCEPT !.limited = @ + 1, !.error = "SourceUnavailable",
                   !.pc = "complete"]

\* RateLimited: retried internally while the retry budget lasts, surfaced
\* as SourceUnavailable when it is exhausted
OnRateLimited(run) ==
  IF run.limited < MaxRetries
  THEN [run EXCEPT !.limited = @ + 1, !.pc = "backoff"]
  ELSE [run EXCEPT !.limited = @ + 1, !.error = "SourceUnavailable",
                   !.pc = "complete"]

\* the source answers a page fetch with 429
RateLimited(r) ==
  /\ runs[r].pc = "fetch"
  /\ runs' = [runs EXCEPT ![r] = OnRateLimited(@)]
  /\ UNCHANGED <<db, seq, now, etl_executions, user_roles, sql_result, http,
                 rpc_calls, call, twice, page, links, nav, search>>

\* one backoff delay, then the fetch is tried again
Backoff(r) ==
  /\ runs[r].pc = "backoff"
  /\ runs' = [runs EXCEPT ![r] =
                [@ EXCEPT !.backoffs = @ + 1, !.pc = "fetch"]]
  /\ UNCHANGED <<db, seq, now, etl_executions, user_roles, sql_result, http,
                 rpc_calls, call, twice, page, links, nav, search>>

NextFetch ==
  \/ \E id \in Uuids : StartRun(1, "ctgov", id)
  \/ RateLimited(1)
  \/ Backoff(1)
  \/ \E b \in Batches("ctgov") : Fetch(1, b)
  \/ FetchFail(1)
  \/ Lookup(1)
  \/ Apply(1)
  \/ Commit(1)
  \/ Complete(1)
  \/ Tick

\* a run that has reached its completion step takes it
SpecFetch == Init /\ [][NextFetch]_vars /\ WF_vars(Complete(1))

\* the fetch of the run has returned its batch
FetchSucceeded(run) ==
  \/ run.pc \in {"lookup", "apply", "commit"}
  \/ run.pc \in {"complete", "done"} /\ run.error # "SourceUnavailable"

\* the retry budget of the run's fetch is exhausted
RetriesExceeded(run) == run.limited > MaxRetries

FetchOutcome ==
  LET run == runs[1]
  IN  /\ FetchSucceeded(run) =>
           /\ run.limited <= MaxRetries
           /\ run.backoffs = run.limited
           /\ run.error = NULL
      /\ RetriesExceeded(run) =>
           /\ run.limited = MaxRetries + 1
           /\ run.backoffs = MaxRetries
           /\ run.error = "SourceUnavailable"
           /\ run.pc \in {"complete", "done"}
           /\ run.processed = 0
      /\ (run.pc = "done" /\ run.error = "SourceUnavailable") =>
           \A x \in RecordsOf(run.id) :
             x.status = "failed" /\ x.error_message = "SourceUnavailable"
      /\ (run.pc = "done" /\ FetchSucceeded(run)) =>
           \A x \in RecordsOf(run.id) : x.error_message = NULL

\* C14: a fetch answered by k rate-limit responses and then by a batch, k
\* within the retry budget, succeeds with no error after exactly k backoff
\* delays; one more rate-limit response than the budget surfaces
\* SourceUnavailable, and the run's Execution Record becomes failed.
C14_RateLimitRetry ==
  /\ []FetchOutcome
  /\ RetriesExceeded(runs[1]) ~>
       (\E x \in RecordsOf(runs[1].id) :
          x.status = "failed" /\ x.error_message = "SourceUnavailable")

\* the whole retry budget was used, the fetch then succeeded and the run
\* ended in success
C14_Witness ==
  LET run == runs[1]
  IN  /\ run.pc = "done"
      /\ run.limited = MaxRetries
      /\ run.backoffs = MaxRetries
      /\ run.processed >= 1
      /\ \E x \in etl_executions :
           x.id = run.id /\ x.status = "success" /\ x.error_message = NULL

(***************************************************************************)
(* The audit trail: a run and the statements authenticated users issue on  *)
(* etl_executions, INSERT included, UPDATE and DELETE aimed at the records *)
(* that exist.                                                             *)
(***************************************************************************)
NextAudit ==
  \/ \E s \in Sources, id \in Uuids : StartRun(1, s, id)
  \/ FetchFail(1)
  \/ Fetch(1, <<>>)
  \/ Complete(1)
  \/ Crash(1)
  \/ Tick
  \/ \E u \in Users, id \in Uuids, st \in StatusTexts :
       UserStatement(u, "INSERT", id, st)
  \/ \E u \in Users, id \in Ids(etl_executions), st \in StatusTexts :
       UserStatement(u, "UPDATE", id, st)
  \/ \E u \in Users, id \in Ids(etl_executions) :
       UserStatement(u, "DELETE", id, NULL)

SpecAudit == Init /\ [][NextAudit]_vars

\* C15: the ids present in etl_executions only grow, whatever the runs and
\* the users do; an UPDATE or DELETE that an authenticated user (owner,
\* admin or plain user) issues on an Execution Record affects no row and
\* leaves the table as it was.
C15_NoRecordDeleted ==
  [][/\ Ids(etl_executions) \subseteq Ids(etl_executions')
     /\ (sql_result' # sql_result /\ sql_result'.cmd \in {"UPDATE", "DELETE"})
          => (etl_executions' = etl_executions /\ sql_result'.rows = 0)]_vars

\* a DELETE aimed at an existing Execution Record removed nothing: the
\* record of the run and a record an owner or admin inserted are both there
C15_Witness ==
  /\ sql_result.cmd = "DELETE"
  /\ sql_result.rows = 0
  /\ \E x \in etl_executions : x.id = runs[1].id /\ x.status \in Terminal
  /\ \E x \in etl_executions : x.executed_by # NULL

(***************************************************************************)
(* The history read (spec.md 4.5) and the admin page that shows it         *)
(* (AdminPage.tsx, fetchETLHistory).  The page asks the backend for the    *)
(* recent executions and keeps the list in the order it arrives.           *)
(***************************************************************************)
\* an order that puts the oldest record first
Newer_OldestFirst(a, b) == a.started_at <= b.started_at

\* ORDER BY started_at DESC: a may come before b
Newer(a, b) == a.started_at >= b.started_at

\* the orders in which the store can return the rows: records that started
\* at the same time come in any order
Orderings(rows) ==
  {s \in [1..Cardinality(rows) -> rows] :
     \A i \in DOMAIN s, j \in DOMAIN s :
       i < j => (s[i] # s[j] /\ Newer(s[i], s[j]))}

\* LIMIT n
Take(s, n) == SubSeq(s, 1, IF Len(s) < n THEN Len(s) ELSE n)

\* what a history read can return: the n most recent records, newest first
HistoryReads(rows, n) == {Take(s, n) : s \in Orderings(rows)}

\* fetchETLHistory(): without a session nothing happens; the list replaces
\* the one shown only when the response is ok
FetchHistory(session, ok, h) ==
  /\ page' = IF session /\ ok THEN [page EXCEPT !.executions = h] ELSE page
  /\ UNCHANGED <<db, seq, now, etl_executions, user_roles, sql_result, runs,
                 http, rpc_calls, call, twice, links, nav, search>>

HistoryIds == 1..MaxRecords

NextHistory ==
  \/ \E id \in HistoryIds : StartRun(1, "ctgov", id)
  \/ FetchFail(1)
  \/ Complete(1)
  \/ Tick
  \/ \E u \in Users, id \in HistoryIds :
       UserStatement(u, "INSERT", id, "success")
  \/ \E session \in BOOLEAN, ok \in BOOLEAN :
       \E h \in HistoryReads(etl_executions, HistoryLimit) :
         FetchHistory(session, ok, h)

SpecHistory == Init /\ [][NextHistory]_vars

\* C16: the list a history read delivers holds Execution Records of the
\* store, each once, at most HistoryLimit of them and all of them when
\* there are fewer; it is sorted by start time, newest first; and no record
\* it leaves out started later than a record it holds.
C16_HistoryNewestFirst ==
  [][page'.executions # page.executions =>
       LET h == page'.executions
       IN  /\ Len(h) <= HistoryLimit
           /\ Len(h) = IF Cardinality(etl_executions) < HistoryLimit
                       THEN Cardinality(etl_executions) ELSE HistoryLimit
           /\ \A i \in DOMAIN h : h[i] \in etl_executions
           /\ \A i \in DOMAIN h, j \in DOMAIN h : i # j => h[i].id # h[j].id
           /\ \A i \in DOMAIN h, j \in DOMAIN h :
                i < j => h[i].started_at >= h[j].started_at
           /\ \A x \in etl_executions :
                (\A i \in DOMAIN h : h[i] # x) =>
                  \A i \in DOMAIN h : h[i].started_at >= x.started_at]_vars

\* the page shows a full list, its first record started later than its
\* last, and the store holds an older record that the list leaves out
C16_Witness ==
  /\ Len(page.executions) = HistoryLimit
  /\ page.executions[1].started_at > page.executions[HistoryLimit].started_at
  /\ \E x \in etl_executions :
       /\ \A i \in DOMAIN page.executions : page.executions[i] # x
       /\ x.started_at <= page.executions[HistoryLimit].started_at
  /\ \A i \in DOMAIN page.executions : page.executions[i] \in etl_executions

(***************************************************************************)
(* Statements on trials (schema migration, lines 45-56): the store accepts *)
(* a row when the PRIMARY KEY and the CHECK constraint of phase allow it.  *)
(* A CHECK constraint is satisfied when its expression is true or NULL.    *)
(***************************************************************************)
TrialIds == {"NCT1", "NCT2"}

\* what a writer may put in the phase column: the enum values, free text of
\* the registry, and nothing at all
PhaseTexts == {"3", "N/A", "PHASE3", NULL}

\* INSERT INTO trials (id, phase) VALUES (...)
SqlInsertTrial(id, phase) ==
  LET row == [id |-> id, phase |-> phase, status |-> NULL,
              sponsor_company_id |-> NONE, fetched_at |-> now]
      ok  == /\ TrialsPhaseCheck(row)
             /\ PkeyUnique(db.trials \cup {row})
  IN  /\ db' = IF ok THEN [db EXCEPT !.trials = @ \cup {row}] ELSE db
      /\ sql_result' = [cmd |-> "INSERT", rows |-> IF ok THEN 1 ELSE 0]
      /\ UNCHANGED <<seq, now, etl_executions, user_roles, runs, http,
                     rpc_calls, call, twice, page, links, nav, search>>

\* UPDATE trials SET phase = ... WHERE id = ...
SqlUpdateTrialPhase(id, phase) ==
  LET hit == {r \in db.trials : r.id = id}
      ok  == \A r \in hit : TrialsPhaseCheck([r EXCEPT !.phase = phase])
  IN  /\ db' = IF ok
               THEN [db EXCEPT !.trials =
                       {IF r.id = id THEN [r EXCEPT !.phase = phase] ELSE r :
                          r \in @}]
               ELSE db
      /\ sql_result' = [cmd |-> "UPDATE",
                        rows |-> IF ok THEN Cardinality(hit) ELSE 0]
      /\ UNCHANGED <<seq, now, etl_executions, user_roles, runs, http,
                     rpc_calls, call, twice, page, links, nav, search>>

NextTrials ==
  \/ \E id \in TrialIds, ph \in PhaseTexts : SqlInsertTrial(id, ph)
  \/ \E id \in TrialIds, ph \in PhaseTexts : SqlUpdateTrialPhase(id, ph)
  \/ \E id \in Uuids : StartRun(1, "ctgov", id)
  \/ \E b \in Batches("ctgov") : Fetch(1, b)
  \/ Lookup(1)
  \/ Apply(1)
  \/ Commit(1)
  \/ Complete(1)
  \/ Tick

SpecTrials == Init /\ [][NextTrials]_vars

\* C17: in every reachable store every trials row has a phase that is one
\* of the seven enum values.
C17_TrialPhaseInEnum == \A t \in db.trials : t.phase \in Phases

(***************************************************************************)
(* The many-to-many link tables (schema migration, lines 96-113): each     *)
(* column REFERENCES its parent ON DELETE CASCADE and the two columns form *)
(* the PRIMARY KEY, so neither is NULL and no pair is stored twice.        *)
(***************************************************************************)
MaxSerial == 1

LinkTables == {"trial_indications", "drug_indications", "drug_targets"}

\* the table each column of a link table REFERENCES: <<left, right>>
LinkParents(lt) ==
  CASE lt = "trial_indications" -> <<"trials", "indications">>
    [] lt = "drug_indications"  -> <<"drugs", "indications">>
    [] lt = "drug_targets"      -> <<"drugs", "targets">>

\* the values a statement may name in a column that REFERENCES table t
KeysOf(t) ==
  IF t = "trials" THEN TrialIds \cup {NULL} ELSE (1..MaxSerial) \cup {NONE}

\* ON DELETE NO ACTION references to a row of table t from outside the link
\* tables: drugs.company_id, approvals.drug_id, approvals.indication_id,
\* trials.sponsor_company_id, filings.company_id
Referenced(d, t, id) ==
  CASE t = "companies" ->
         \/ \E r \in d.drugs : r.company_id = id
         \/ \E r \in d.trials : r.sponsor_company_id = id
         \/ \E r \in d.filings : r.company_id = id
    [] t = "drugs" -> \E r \in d.approvals : r.drug_id = id
    [] t = "indications" -> \E r \in d.approvals : r.indication_id = id
    [] OTHER -> FALSE

\* ON DELETE NO ACTION instead of CASCADE: the link rows stay
Cascade_NoAction(l, t, id) == l

\* ON DELETE CASCADE: the link rows that reference row id of table t go
Cascade(l, t, id) ==
  [lt \in LinkTables |->
     {p \in l[lt] : /\ ~(LinkParents(lt)[1] = t /\ p[1] = id)
                    /\ ~(LinkParents(lt)[2] = t /\ p[2] = id)}]

\* INSERT INTO drugs | indications | targets (name) VALUES (...)
SqlInsertEntity(type, name) ==
  LET t   == TableOf(type)
      id  == seq[t] + 1
      row == NewEntityRow(type, id, name, NULL, now)
  IN  /\ seq[t] < MaxSerial
      /\ seq' = [seq EXCEPT ![t] = id]
      /\ db' = [db EXCEPT ![t] = @ \cup {row}]
      /\ sql_result' = [cmd |-> "INSERT", rows |-> 1]
      /\ UNCHANGED <<now, etl_executions, user_roles, runs, http, rpc_calls,
                     call, twice, page, links, nav, search>>

\* INSERT INTO <link table> VALUES (a, b)
SqlInsertLink(lt, a, b) ==
  LET left  == LinkParents(lt)[1]
      right == LinkParents(lt)[2]
      ok    == /\ a \in Ids(db[left])
               /\ b \in Ids(db[right])
               /\ <<a, b>> \notin links[lt]
  IN  /\ links' = IF ok THEN [links EXCEPT ![lt] = @ \cup {<<a, b>>}]
                  ELSE links
      /\ sql_result' = [cmd |-> "INSERT", rows |-> IF ok THEN 1 ELSE 0]
      /\ UNCHANGED <<db, seq, now, etl_executions, user_roles, runs, http,
                     rpc_calls, call, twice, page, nav, search>>

\* DELETE FROM <table> WHERE id = ...
SqlDelete(t, id) ==
  LET hit == {r \in db[t] : r.id = id}
      ok  == ~Referenced(db, t, id)
      l   == Cascade(links, t, id)
  IN  /\ db' = IF ok THEN [db EXCEPT ![t] = @ \ hit] ELSE db
      /\ links' = IF ok /\ hit # {} THEN l ELSE links
      /\ sql_result' =
           [cmd |-> "DELETE",
            rows |-> IF ok THEN Cardinality(hit) ELSE 0,
            cascaded |->
              IF ok /\ hit # {}
              THEN Cardinality(links.trial_indications \ l.trial_indications)
                   + Cardinality(links.drug_indications \ l.drug_indications)
                   + Cardinality(links.drug_targets \ l.drug_targets)
              ELSE 0]
      /\ UNCHANGED <<seq, now, etl_executions, user_roles, runs, http,
                     rpc_calls, call, twice, page, nav, search>>

LinkedTables == {"trials", "drugs", "indications", "targets"}

NextLinks ==
  \/ \E id \in TrialIds : SqlInsertTrial(id, "N/A")
  \/ \E type \in {"drug", "indication", "target"} : SqlInsertEntity(type, N_B)
  \/ \E lt \in LinkTables :
       \E a \in KeysOf(LinkParents(lt)[1]), b \in KeysOf(LinkParents(lt)[2]) :
         SqlInsertLink(lt, a, b)
  \/ \E t \in LinkedTables : \E id \in KeysOf(t) : SqlDelete(t, id)

SpecLinks == Init /\ [][NextLinks]_vars

\* rows of link table lt that reference row id of table t
Referencing(l, lt, t, id) ==
  {p \in l[lt] : \/ LinkParents(lt)[1] = t /\ p[1] = id
                 \/ LinkParents(lt)[2] = t /\ p[2] = id}

\* C18: every row of trial_indications, drug_indications and drug_targets
\* references an existing row on both sides, and a step that deletes a
\* Trial, Drug, Indication or Target leaves no link row referencing it and
\* removes no other link row.
C18_LinksCascade ==
  /\ [](\A lt \in LinkTables : \A p \in links[lt] :
          /\ p[1] \in Ids(db[LinkParents(lt)[1]])
          /\ p[2] \in Ids(db[LinkParents(lt)[2]]))
  /\ [][\A lt \in LinkTables :
          /\ \A t \in LinkedTables : \A id \in Ids(db[t]) \ Ids(db'[t]) :
               Referencing(links', lt, t, id) = {}
          /\ \A p \in links[lt] \ links'[lt] :
               \E t \in LinkedTables : \E id \in Ids(db[t]) \ Ids(db'[t]) :
                 p \in Referencing(links, lt, t, id)]_vars

\* a DELETE removed a row together with two link rows that referenced it,
\* and link rows of other parents remain
C18_Witness ==
  /\ sql_result.cmd = "DELETE"
  /\ sql_result.rows = 1
  /\ sql_result.cascaded >= 2
  /\ \E lt \in LinkTables : links[lt] # {}

(***************************************************************************)
(* admin-etl: requests that carry no Authorization header.                 *)
(***************************************************************************)
\* req.headers.get('Authorization') is falsy: absent, or present and empty
NoAuthorization(req) == req.authorization = NULL \/ req.authorization = ""

\* C19: a request to admin-etl whose method is not OPTIONS and that has no
\* Authorization header is answered 401 Unauthorized and has no effect: no
\* trigger is reported, refresh_search_mv is not invoked, and nothing in
\* the store or in the execution records changes.
C19_NoHeaderUnauthorized ==
  /\ []((http.status # 0 /\ http.req.method # "OPTIONS"
           /\ NoAuthorization(http.req)) =>
          /\ http.status = 401
          /\ http.body = [text |-> "Unauthorized"]
          /\ ~http.rpc)
  /\ [][(http' # http /\ http'.req.method # "OPTIONS"
           /\ NoAuthorization(http'.req)) =>
          /\ rpc_calls' = rpc_calls
          /\ UNCHANGED <<db, seq, etl_executions, user_roles, runs, nav, search>>]_vars

\* a POST to /refresh-search without the header was answered 401 after an
\* earlier request with the header had invoked the RPC
C19_Witness ==
  /\ http.req.method = "POST"
  /\ http.req.authorization = NULL
  /\ http.req.etlType = "refresh-search"
  /\ http.status = 401
  /\ rpc_calls >= 1

(***************************************************************************)
(* AdminPage.runETL (src/pages/AdminPage.tsx, lines 103-142) and the Run   *)
(* buttons (lines 219-232, 247-260, 275-288).  Each click starts one call  *)
(* of the async function; page.calls holds every call made so far and the  *)
(* await it is suspended at.                                               *)
(***************************************************************************)
MaxClicks == 3

ButtonTypes == {"ctgov", "fda", "edgar"}

\* disabled={runningETL === etlType}
Disabled(p, etlType) == p.runningETL = etlType

\* a call suspended at: await getSession() | await fetch(...) and
\* response.json() | await fetchETLHistory() | returned
CallPcs == {"session", "post", "history", "done"}

\* onClick={() => runETL(etlType)}: setRunningETL(etlType), then the call
\* waits for the session
ClickRun(etlType) ==
  /\ Len(page.calls) < MaxClicks
  /\ ~Disabled(page, etlType)
  /\ page' = [page EXCEPT
                !.runningETL = etlType,
                !.calls = Append(@, [etlType |-> etlType, pc |-> "session"])]
  /\ UNCHANGED <<db, seq, now, etl_executions, user_roles, sql_result, runs,
                 http, rpc_calls, call, twice, links, nav, search>>

\* getSession() resolved: with a session the POST is sent, without one the
\* call throws and finally runs setRunningETL(null)
GotSession(i, session) ==
  /\ i \in 1..Len(page.calls)
  /\ page.calls[i].pc = "session"
  /\ page' = IF session
             THEN [page EXCEPT !.calls[i].pc = "post"]
             ELSE [page EXCEPT !.calls[i].pc = "done", !.runningETL = NULL]
  /\ UNCHANGED <<db, seq, now, etl_executions, user_roles, sql_result, runs,
                 http, rpc_calls, call, twice, links, nav, search>>

\* the POST completed: response.ok leads to the history refresh, anything
\* else (a rejected fetch, a body that is not JSON, !response.ok) throws
\* and finally runs setRunningETL(null)
GotResponse(i, ok) ==
  /\ i \in 1..Len(page.calls)
  /\ page.calls[i].pc = "post"
  /\ page' = IF ok
             THEN [page EXCEPT !.calls[i].pc = "history"]
             ELSE [page EXCEPT !.calls[i].pc = "done", !.runningETL = NULL]
  /\ UNCHANGED <<db, seq, now, etl_executions, user_roles, sql_result, runs,
                 http, rpc_calls, call, twice, links, nav, search>>

\* fetchETLHistory() returned, having set the executions when it had a
\* session and an ok response; finally runs setRunningETL(null)
HistoryRefreshed(i, session, ok, h) ==
  /\ i \in 1..Len(page.calls)
  /\ page.calls[i].pc = "history"
  /\ page' = [page EXCEPT
                !.calls[i].pc = "done",
                !.runningETL = NULL,
                !.executions = IF session /\ ok THEN h ELSE @]
  /\ UNCHANGED <<db, seq, now, etl_executions, user_roles, sql_result, runs,
                 http, rpc_calls, call, twice, links, nav, search>>

NextPage ==
  \/ \E etlType \in ButtonTypes : ClickRun(etlType)
  \/ \E i \in 1..MaxClicks, session \in BOOLEAN : GotSession(i, session)
  \/ \E i \in 1..MaxClicks, ok \in BOOLEAN : GotResponse(i, ok)
  \/ \E i \in 1..MaxClicks, session \in BOOLEAN, ok \in BOOLEAN,
          h \in HistoryReads(etl_executions, HistoryLimit) :
       HistoryRefreshed(i, session, ok, h)

SpecPage == Init /\ [][NextPage]_vars

\* C20: while the trigger request of a call for an ETL type is in flight,
\* the Run button of that type is disabled.
C20_RunButtonDisabled ==
  \A i \in 1..Len(page.calls) :
    page.calls[i].pc = "post" => Disabled(page, page.calls[i].etlType)

(***************************************************************************)
(* Navigation (src/components/Navigation.tsx).  nav.auth is the user of    *)
(* the auth client's current session, nav.user and nav.isOwner are the     *)
(* component's state, nav.lookups holds every checkOwnerRole call started  *)
(* and whether its query has completed.                                    *)
(***************************************************************************)
\* what the user_roles query of checkOwnerRole can do: return its rows,
\* return {data: null, error}, or reject
LookupOutcomes == {"rows", "error", "reject"}

\* checkOwnerRole(userId) up to its await: the query is sent
StartLookup(n, userId) ==
  [n EXCEPT !.lookups = Append(@, [userId |-> userId, pc |-> "query"])]

\* setUser(session?.user || null), then checkOwnerRole when there is a user
\* (lines 18-22 and 29-32)
OnSession(n, u) ==
  IF u # NULL THEN StartLookup([n EXCEPT !.user = u], u)
  ELSE [n EXCEPT !.user = NULL]

\* the callback given to onAuthStateChange is called with the session of
\* user u, or with no session (lines 28-36)
AuthStateChange(u) ==
  /\ nav.events < MaxAuthEvents
  /\ nav' = LET n == [OnSession(nav, u) EXCEPT !.auth = u, !.events = @ + 1]
            IN  IF u = NULL THEN [n EXCEPT !.isOwner = FALSE] ELSE n
  /\ UNCHANGED <<db, seq, now, etl_executions, user_roles, sql_result, runs,
                 http, rpc_calls, call, twice, page, links, search>>

\* await supabase.auth.getSession() of the effect resolved with the current
\* session (lines 16-23)
GetSessionResolved ==
  /\ nav.initial = "pending"
  /\ nav' = [OnSession(nav, nav.auth) EXCEPT !.initial = "done"]
  /\ UNCHANGED <<db, seq, now, etl_executions, user_roles, sql_result, runs,
                 http, rpc_calls, call, twice, page, links, search>>

\* setIsOwner(roles && roles.length > 0), or setIsOwner(false) in catch
\* (lines 43-53)
OwnerRoleResult(roles, userId, outcome) ==
  outcome = "rows" /\ has_role(roles, userId, "owner")

\* the query of the i-th checkOwnerRole call completed
LookupDone(i, outcome) ==
  /\ i \in 1..Len(nav.lookups)
  /\ nav.lookups[i].pc = "query"
  /\ nav' = [nav EXCEPT
               !.lookups[i].pc = "done",
               !.isOwner = OwnerRoleResult(user_roles,
                                           nav.lookups[i].userId, outcome)]
  /\ UNCHANGED <<db, seq, now, etl_executions, user_roles, sql_result, runs,
                 http, rpc_calls, call, twice, page, links, search>>

NextNav ==
  \/ \E u \in Users \cup {NULL} : AuthStateChange(u)
  \/ GetSessionResolved
  \/ \E i \in 1..(MaxAuthEvents + 1), outcome \in LookupOutcomes :
       LookupDone(i, outcome)

SpecNav == Init /\ [][NextNav]_vars

\* C21: whenever the latest auth state has no signed-in user, isOwner is
\* false, so the Admin link ({isOwner && ...}) is not shown.
C21_NoUserNoAdminLink == nav.auth = NULL => ~nav.isOwner

(***************************************************************************)
(* AdminPage.checkAuth (src/pages/AdminPage.tsx, lines 29-80) and the      *)
(* guards of the render (lines 170-191).  page.auth is the await checkAuth *)
(* is suspended at, page.path the way it returned, page.route where        *)
(* navigate() last sent the browser.                                       *)
(***************************************************************************)
\* finally { setLoading(false) }
Finally(p, path) == [p EXCEPT !.loading = FALSE, !.auth = "done", !.path = path]

\* getSession() resolved with the session of user u, with no session, or
\* rejected (lines 35-42, 74-76)
OnAuthSession(p, u) ==
  CASE u = "reject" -> Finally([p EXCEPT !.route = "/auth"], "thrown")
    [] u = NULL     -> Finally([p EXCEPT !.route = "/auth"], "no-session")
    [] OTHER        -> [p EXCEPT !.user = u, !.auth = "roles"]

\* checkAuth that goes on to setIsOwner(true) whatever the role query gave
OnAuthRoles_NoReturn(p, roles, outcome) ==
  [p EXCEPT !.isOwner = TRUE, !.auth = "history"]

\* the user_roles query completed (lines 45-71, 74-76)
OnAuthRoles(p, roles, outcome) ==
  CASE outcome = "reject" -> Finally([p EXCEPT !.route = "/auth"], "thrown")
    [] outcome = "error"  -> Finally(p, "role-error")
    [] OTHER ->
         IF ~has_role(roles, p.user, "owner")
         THEN Finally([p EXCEPT !.route = "/"], "no-owner")
         ELSE [p EXCEPT !.isOwner = TRUE, !.auth = "history"]

AuthSession(u) ==
  /\ page.auth = "session"
  /\ page' = OnAuthSession(page, u)
  /\ UNCHANGED <<db, seq, now, etl_executions, user_roles, sql_result, runs,
                 http, rpc_calls, call, twice, links, nav, search>>

AuthRoles(outcome) ==
  /\ page.auth = "roles"
  /\ page' = OnAuthRoles(page, user_roles, outcome)
  /\ UNCHANGED <<db, seq, now, etl_executions, user_roles, sql_result, runs,
                 http, rpc_calls, call, twice, links, nav, search>>

\* await fetchETLHistory() returned (it catches what it throws), then finally
AuthHistory(session, ok, h) ==
  /\ page.auth = "history"
  /\ page' = Finally([page EXCEPT
                        !.executions = IF session /\ ok THEN h ELSE @],
                     "owner")
  /\ UNCHANGED <<db, seq, now, etl_executions, user_roles, sql_result, runs,
                 http, rpc_calls, call, twice, links, nav, search>>

\* the steps of checkAuth: every promise it awaits settles
CheckAuthStep ==
  \/ \E u \in Users \cup {NULL, "reject"} : AuthSession(u)
  \/ \E outcome \in LookupOutcomes : AuthRoles(outcome)
  \/ \E session \in BOOLEAN, ok \in BOOLEAN,
        h \in HistoryReads(etl_executions, HistoryLimit) :
       AuthHistory(session, ok, h)

NextAuth ==
  \/ CheckAuthStep
  \/ \E u \in Users, id \in HistoryIds :
       UserStatement(u, "INSERT", id, "success")
  \/ Tick

SpecAuth == Init /\ [][NextAuth]_vars /\ WF_vars(CheckAuthStep)

\* the render reaches the ETL controls and the history (lines 170-193)
RendersControls(p) == ~p.loading /\ p.isOwner

\* C22: the admin page renders the ETL controls and history only after
\* checkAuth found a session and an owner row of its user in user_roles;
\* when checkAuth returned any other way (no session, role query error, no
\* owner row, thrown exception) isOwner is false; and on every path
\* loading eventually becomes false.
C22_ControlsOnlyForOwner ==
  /\ []((page.isOwner \/ RendersControls(page)) =>
          /\ page.user \in Users
          /\ \E r \in user_roles :
               r.user_id = page.user /\ r.role = "owner")
  /\ [](page.path \in {"no-session", "role-error", "no-owner", "thrown"} =>
          ~page.isOwner /\ ~RendersControls(page))
  /\ <>(~page.loading)

\* checkAuth returned on the owner path and the page shows the controls
\* with a record in the history
C22_Witness ==
  /\ page.auth = "done"
  /\ page.path = "owner"
  /\ RendersControls(page)
  /\ Len(page.executions) >= 1

(***************************************************************************)
(* The mock data and searchAllEntities (src/data/mockData.ts).  Strings    *)
(* are sequences of characters; a numeric id is written as its decimal     *)
(* text; a subtitle is the sequence of the parts its template joins.       *)
(***************************************************************************)
\* lines 60-116
mockCompanies ==
  <<
    [id |-> <<"1">>,
     name |-> <<"P", "f", "i", "z", "e", "r", " ", "I", "n", "c", ".">>,
     ticker |-> <<"P", "F", "E">>,
     country |-> <<"U", "n", "i", "t", "e", "d", " ", "S", "t", "a", "t",
        "e", "s">>],
    [id |-> <<"2">>,
     name |-> <<"R", "o", "c", "h", "e", " ", "H", "o", "l", "d", "i", "n",
        "g", " ", "A", "G">>,
     ticker |-> <<"R", "O", "G">>,
     country |-> <<"S", "w", "i", "t", "z", "e", "r", "l", "a", "n", "d">>],
    [id |-> <<"3">>,
     name |-> <<"M", "o", "d", "e", "r", "n", "a", " ", "I", "n", "c", ".">>,
     ticker |-> <<"M", "R", "N", "A">>,
     country |-> <<"U", "n", "i", "t", "e", "d", " ", "S", "t", "a", "t",
        "e", "s">>],
    [id |-> <<"4">>,
     name |-> <<"B", "i", "o", "N", "T", "e", "c", "h", " ", "S", "E">>,
     ticker |-> <<"B", "N", "T", "X">>,
     country |-> <<"G", "e", "r", "m", "a", "n", "y">>],
    [id |-> <<"5">>,
     name |-> <<"G", "i", "l", "e", "a", "d", " ", "S", "c", "i", "e", "n",
        "c", "e", "s">>,
     ticker |-> <<"G", "I", "L", "D">>,
     country |-> <<"U", "n", "i", "t", "e", "d", " ", "S", "t", "a", "t",
        "e", "s">>]
  >>

\* lines 118-166
mockDrugs ==
  <<
    [id |-> <<"1">>,
     name |-> <<"D", "a", "r", "o", "l", "u", "t", "a", "m", "i", "d", "e">>,
     company |-> <<"B", "a", "y", "e", "r", " ", "A", "G">>,
     mechanism |-> <<"A", "n", "d", "r", "o", "g", "e", "n", " ", "R", "e",
        "c", "e", "p", "t", "o", "r", " ", "A", "n", "t", "a", "g", "o", "n",
        "i", "s", "t">>],
    [id |-> <<"2">>,
     name |-> <<"T", "r", "a", "s", "t", "u", "z", "u", "m", "a", "b", " ",
        "D", "e", "r", "u", "x", "t", "e", "c", "a", "n">>,
     company |-> <<"D", "a", "i", "i", "c", "h", "i", " ", "S", "a", "n",
        "k", "y", "o">>,
     mechanism |-> <<"H", "E", "R", "2", "-", "t", "a", "r", "g", "e", "t",
        "i", "n", "g", " ", "A", "D", "C">>],
    [id |-> <<"3">>,
     name |-> <<"S", "o", "t", "o", "r", "a", "s", "i", "b">>,
     company |-> <<"A", "m", "g", "e", "n", " ", "I", "n", "c", ".">>,
     mechanism |-> <<"K", "R", "A", "S", " ", "G", "1", "2", "C", " ", "I",
        "n", "h", "i", "b", "i", "t", "o", "r">>]
  >>

\* lines 168-217
mockTrials ==
  <<
    [id |-> <<"N", "C", "T", "0", "5", "1", "2", "3", "4", "5", "6">>,
     title |-> <<"P", "h", "a", "s", "e", " ", "3", " ", "S", "t", "u", "d",
        "y", " ", "o", "f", " ", "D", "a", "r", "o", "l", "u", "t", "a", "m",
        "i", "d", "e", " ", "i", "n", " ", "M", "e", "t", "a", "s", "t", "a",
        "t", "i", "c", " ", "C", "R", "P", "C">>,
     phase |-> <<"3">>,
     indication |-> <<"M", "e", "t", "a", "s", "t", "a", "t", "i", "c", " ",
        "C", "a", "s", "t", "r", "a", "t", "i", "o", "n", "-", "R", "e", "s",
        "i", "s", "t", "a", "n", "t", " ", "P", "r", "o", "s", "t", "a", "t",
        "e", " ", "C", "a", "n", "c", "e", "r">>],
    [id |-> <<"N", "C", "T", "0", "5", "2", "3", "4", "5", "6", "7">>,
     title |-> <<"T", "-", "D", "X", "d", " ", "v", "s", " ", "S", "t", "a",
        "n", "d", "a", "r", "d", " ", "o", "f", " ", "C", "a", "r", "e", " ",
        "i", "n", " ", "H", "E", "R", "2", "-", "L", "o", "w", " ", "B", "r",
        "e", "a", "s", "t", " ", "C", "a", "n", "c", "e", "r">>,
     phase |-> <<"3">>,
     indication |-> <<"H", "E", "R", "2", "-", "L", "o", "w", " ", "B", "r",
        "e", "a", "s", "t", " ", "C", "a", "n", "c", "e", "r">>],
    [id |-> <<"N", "C", "T", "0", "5", "3", "4", "5", "6", "7", "8">>,
     title |-> <<"S", "o", "t", "o", "r", "a", "s", "i", "b", " ", "+", " ",
        "P", "e", "m", "b", "r", "o", "l", "i", "z", "u", "m", "a", "b", " ",
        "i", "n", " ", "K", "R", "A", "S", " ", "G", "1", "2", "C", " ", "N",
        "S", "C", "L", "C">>,
     phase |-> <<"2">>,
     indication |-> <<"N", "o", "n", "-", "S", "m", "a", "l", "l", " ", "C",
        "e", "l", "l", " ", "L", "u", "n", "g", " ", "C", "a", "n", "c", "e",
        "r">>],
    [id |-> <<"N", "C", "T", "0", "5", "4", "5", "6", "7", "8", "9">>,
     title |-> <<"m", "R", "N", "A", "-", "1", "2", "7", "3", " ", "S", "e",
        "a", "s", "o", "n", "a", "l", " ", "I", "n", "f", "l", "u", "e", "n",
        "z", "a", " ", "V", "a", "c", "c", "i", "n", "e", " ", "S", "t", "u",
        "d", "y">>,
     phase |-> <<"2">>,
     indication |-> <<"I", "n", "f", "l", "u", "e", "n", "z", "a", " ", "P",
        "r", "e", "v", "e", "n", "t", "i", "o", "n">>]
  >>

\* lines 219-313
mockIndications ==
  <<
    [id |-> <<"1">>,
     name |-> <<"M", "e", "t", "a", "s", "t", "a", "t", "i", "c", " ", "C",
        "a", "s", "t", "r", "a", "t", "i", "o", "n", "-", "R", "e", "s", "i",
        "s", "t", "a", "n", "t", " ", "P", "r", "o", "s", "t", "a", "t", "e",
        " ", "C", "a", "n", "c", "e", "r">>,
     prevalence |-> <<"~", "2", "8", "0", ",", "0", "0", "0", " ", "p", "a",
        "t", "i", "e", "n", "t", "s", " ", "g", "l", "o", "b", "a", "l", "l",
        "y">>],
    [id |-> <<"2">>,
     name |-> <<"H", "E", "R", "2", "-", "P", "o", "s", "i", "t", "i", "v",
        "e", " ", "B", "r", "e", "a", "s", "t", " ", "C", "a", "n", "c", "e",
        "r">>,
     prevalence |-> <<"~", "3", "2", "0", ",", "0", "0", "0", " ", "p", "a",
        "t", "i", "e", "n", "t", "s", " ", "g", "l", "o", "b", "a", "l", "l",
        "y">>],
    [id |-> <<"3">>,
     name |-> <<"N", "o", "n", "-", "S", "m", "a", "l", "l", " ", "C", "e",
        "l", "l", " ", "L", "u", "n", "g", " ", "C", "a", "n", "c", "e",
        "r">>,
     prevalence |-> <<"~", "1", ".", "8", "M", " ", "p", "a", "t", "i", "e",
        "n", "t", "s", " ", "g", "l", "o", "b", "a", "l", "l", "y">>]
  >>

\* results.slice(0, 10)
ResultLimit == 10

\* haystack.includes(needle)
Includes(hay, needle) ==
  \E k \in 0..(Len(hay) - Len(needle)) :
    SubSeq(hay, k + 1, k + Len(needle)) = needle

\* a.toLowerCase().includes(query.toLowerCase())
Found(a, query) == Includes(LowerAll(a), LowerAll(query))

\* forEach ... results.push(...) over one list: the rows that pass the
\* test, in the list's order, each turned into a result
Pushed(list, Hit(_), Result(_)) ==
  LET hits == SelectSeq(list, Hit)
  IN  [k \in 1..Len(hits) |-> Result(hits[k])]

\* the results array before the slice (lines 316-373)
AllMatches(query) ==
  Pushed(mockCompanies,
         LAMBDA c : Found(c.name, query) \/ Found(c.ticker, query),
         LAMBDA c : [type |-> "company", id |-> c.id, name |-> c.name,
                     subtitle |-> <<c.ticker, c.country>>])
  \o
  Pushed(mockDrugs,
         LAMBDA d : Found(d.name, query) \/ Found(d.mechanism, query),
         LAMBDA d : [type |-> "drug", id |-> d.id, name |-> d.name,
                     subtitle |-> <<d.company, d.mechanism>>])
  \o
  Pushed(mockTrials,
         LAMBDA t : \/ Found(t.title, query)
                    \/ Found(t.id, query)
                    \/ Found(t.indication, query),
         LAMBDA t : [type |-> "trial", id |-> t.id, name |-> t.title,
                     subtitle |-> <<t.id, t.phase>>])
  \o
  Pushed(mockIndications,
         LAMBDA i : Found(i.name, query),
         LAMBDA i : [type |-> "indication", id |-> i.id, name |-> i.name,
                     subtitle |-> <<i.prevalence>>])

\* searchAllEntities without the slice
searchAllEntities_NoLimit(query) == AllMatches(query)

searchAllEntities(query) == Take(AllMatches(query), ResultLimit)

(***************************************************************************)
(* searchAllEntities applied to a query: search.query is the argument and  *)
(* search.results the array returned.                                      *)
(***************************************************************************)
QueryChars == {"a", "A", "e", "n", "N", "c", "r", "R", "2", " "}

SearchQueries ==
  SeqsUpTo(QueryChars, MaxQueryLen)
    \cup {<<"h", "e", "r", "2">>, <<"I", "N", "C", ".">>,
          <<"n", "c", "t", "0", "5">>, <<"x", "y", "z">>}

InitSearchFn ==
  /\ db = EmptyDb
  /\ seq = ZeroSeq
  /\ now = 0
  /\ etl_executions = {}
  /\ user_roles = SeedRoles
  /\ sql_result = [cmd |-> NULL, rows |-> 0]
  /\ runs = [r \in Runs |-> IdleRun]
  /\ http = NoHttp
  /\ rpc_calls = 0
  /\ call = NoCall
  /\ twice = NoTwice
  /\ page = NoPage
  /\ links = NoLinks
  /\ nav = NoNav
  /\ search \in {[NoSearch EXCEPT !.query = q] : q \in SearchQueries}

CallSearch ==
  /\ ~search.called
  /\ search' = [search EXCEPT !.results = searchAllEntities(search.query),
                              !.called = TRUE]
  /\ UNCHANGED <<db, seq, now, etl_executions, user_roles, sql_result, runs,
                 http, rpc_calls, call, twice, page, links, nav>>

NextSearchFn == CallSearch

SpecSearchFn == InitSearchFn /\ [][NextSearchFn]_vars

\* every entity of the mock data in the order companies, drugs, trials,
\* indications, with the fields the search looks at
Catalog ==
  [k \in 1..Len(mockCompanies) |->
     [type |-> "company", id |-> mockCompanies[k].id,
      name |-> mockCompanies[k].name,
      fields |-> {mockCompanies[k].name, mockCompanies[k].ticker}]]
  \o
  [k \in 1..Len(mockDrugs) |->
     [type |-> "drug", id |-> mockDrugs[k].id, name |-> mockDrugs[k].name,
      fields |-> {mockDrugs[k].name, mockDrugs[k].mechanism}]]
  \o
  [k \in 1..Len(mockTrials) |->
     [type |-> "trial", id |-> mockTrials[k].id,
      name |-> mockTrials[k].title,
      fields |-> {mockTrials[k].title, mockTrials[k].id,
                  mockTrials[k].indication}]]
  \o
  [k \in 1..Len(mockIndications) |->
     [type |-> "indication", id |-> mockIndications[k].id,
      name |-> mockIndications[k].name,
      fields |-> {mockIndications[k].name}]]

\* q occurs in a, letter case apart
SubstringNoCase(a, q) ==
  \E k \in 0..(Len(a) - Len(q)) :
    \A j \in 1..Len(q) : Lower(a[k + j]) = Lower(q[j])

\* the entity at place k of the catalog matches q
MatchesAt(k, q) == \E f \in Catalog[k].fields : SubstringNoCase(f, q)

\* result r is the entity at place k of the catalog
IsEntity(r, k) ==
  r.type = Catalog[k].type /\ r.id = Catalog[k].id /\ r.name = Catalog[k].name

\* C28: searchAllEntities returns at most 10 results; each is an entity
\* whose searched fields contain the query as a case-insensitive
\* substring; they are listed companies first, then drugs, trials and
\* indications, each group in mock-data order; and the list is the first
\* 10 of all the matching entities in that order.
C28_SearchFirstTenMatches ==
  search.called =>
    LET q == search.query
        r == search.results
        m == {k \in 1..Len(Catalog) : MatchesAt(k, q)}
    IN  /\ Len(r) <= 10
        /\ Len(r) = IF Cardinality(m) < 10 THEN Cardinality(m) ELSE 10
        /\ \A i \in 1..Len(r) :
             \E k \in m :
               /\ IsEntity(r[i], k)
               /\ Cardinality({j \in m : j < k}) = i - 1

\* a query that more than 10 entities match, upper and lower case alike,
\* was answered with 10 results that start with a company and end with a
\* trial
C28_Witness ==
  /\ search.called
  /\ search.query = <<"A">>
  /\ Cardinality({k \in 1..Len(Catalog) : MatchesAt(k, search.query)}) > 10
  /\ Len(search.results) = 10
  /\ search.results[1].type = "company"
  /\ search.results[10].type = "trial"

(***************************************************************************)
(* SearchBar (src/components/SearchBar.tsx).  search.effect says that the  *)
(* query changed and the effect on [query] has not run yet; search.clicked *)
(* holds the result last clicked until the input is next edited or focused.*)
(***************************************************************************)
\* what the user may put in the input
TypedQueries ==
  {<<>>, <<"a">>, <<"r", "o">>, <<"H", "E", "R", "2">>, <<"x", "y">>,
   mockDrugs[3].name}

\* {showResults && results.length > 0 && (<Card ...>)}
Visible(s) == s.showResults /\ Len(s.results) > 0

\* useEffect(() => {...}, [query]) (lines 15-24)
RunQueryEffect(s) ==
  IF Len(s.query) > 1
  THEN [s EXCEPT !.results = searchAllEntities(s.query),
                 !.showResults = TRUE, !.effect = FALSE]
  ELSE [s EXCEPT !.results = <<>>, !.showResults = FALSE, !.effect = FALSE]

\* setQuery(q): the effect is due when the query changed
SetQuery(s, q) == [s EXCEPT !.query = q, !.effect = @ \/ q # s.query]

\* an onFocus that opens the dropdown whatever the query
OnFocus_Always(s) == [s EXCEPT !.showResults = TRUE]

\* onFocus={() => query.length > 1 && setShowResults(true)}
OnFocus(s) == IF Len(s.query) > 1 THEN [s EXCEPT !.showResults = TRUE] ELSE s

\* onChange={(e) => setQuery(e.target.value)}
Change(q) ==
  /\ q # search.query
  /\ search' = [SetQuery(search, q) EXCEPT !.clicked = <<>>]
  /\ UNCHANGED <<db, seq, now, etl_executions, user_roles, sql_result, runs,
                 http, rpc_calls, call, twice, page, links, nav>>

Focus ==
  /\ search' = [OnFocus(search) EXCEPT !.clicked = <<>>]
  /\ UNCHANGED <<db, seq, now, etl_executions, user_roles, sql_result, runs,
                 http, rpc_calls, call, twice, page, links, nav>>

\* handleClickOutside: a mousedown outside the component (lines 27-31)
ClickOutside ==
  /\ search' = [search EXCEPT !.showResults = FALSE]
  /\ UNCHANGED <<db, seq, now, etl_executions, user_roles, sql_result, runs,
                 http, rpc_calls, call, twice, page, links, nav>>

\* handleResultClick(results[i]) (lines 37-42): only a rendered result can
\* be clicked
ResultClick(i) ==
  /\ Visible(search)
  /\ i \in 1..Len(search.results)
  /\ search' = [SetQuery(search, search.results[i].name) EXCEPT
                  !.showResults = FALSE,
                  !.clicked = <<search.results[i]>>]
  /\ UNCHANGED <<db, seq, now, etl_executions, user_roles, sql_result, runs,
                 http, rpc_calls, call, twice, page, links, nav>>

QueryEffect ==
  /\ search.effect
  /\ search' = RunQueryEffect(search)
  /\ UNCHANGED <<db, seq, now, etl_executions, user_roles, sql_result, runs,
                 http, rpc_calls, call, twice, page, links, nav>>

NextSearchBar ==
  \/ \E q \in TypedQueries : Change(q)
  \/ Focus
  \/ ClickOutside
  \/ \E i \in 1..ResultLimit : ResultClick(i)
  \/ QueryEffect

SpecSearchBar == Init /\ [][NextSearchBar]_vars

\* C23: after the user clicked a search result, and until the input is
\* next edited or focused, the query is the clicked result's name and the
\* results dropdown is hidden.
C23_HiddenAfterResultClick ==
  search.clicked # <<>> =>
    /\ search.query = search.clicked[1].name
    /\ ~Visible(search)

\* C24: once the query effect has run, a query of length 0 or 1 implies
\* that results is empty and showResults is false.
C24_ShortQueryHidden ==
  (~search.effect /\ Len(search.query) <= 1) =>
    /\ search.results = <<>>
    /\ ~search.showResults

\* the user typed a one-character query and the effect has run on it:
\* no results are held and the dropdown is not rendered
C24_Witness ==
  /\ Len(search.query) = 1
  /\ ~search.effect
  /\ search.clicked = <<>>
  /\ search.results = <<>>
  /\ ~Visible(search)

(***************************************************************************)
(* The indication-details edge function                                    *)
(* (supabase/functions/indication-details/index.ts).  A request carries    *)
(* its method and its id query parameter (NULL when absent); io is what    *)
(* the store answered to each of the three queries: supabase-js resolves a *)
(* query to {data, error} and does not reject.  http.queries lists the     *)
(* relations the handler read.                                             *)
(***************************************************************************)
IdParams == {NULL, "", "1", "2", "abc"}

DetailRequests == [method : Methods, id : IdParams]

\* the text of a SERIAL id, as it appears in a URL
IdText(n) == CASE n = 1 -> "1" [] n = 2 -> "2" [] OTHER -> "?"

\* data of a query that succeeded with no row, or with one
FunnelData == {<<>>, <<[phase |-> "3", trial_count |-> 1]>>}

TrialData == {<<>>, <<[id |-> "NCT1", phase |-> "3"]>>}

\* {data, error} of a query: data is null when there is an error
Answers(data) ==
  {[error |-> TRUE, data |-> <<>>]} \cup {[error |-> FALSE, data |-> x] : x \in data}

\* what the three queries can answer
DetailIo ==
  [lookup : {"ok", "error"},
   funnel : Answers(FunnelData),
   trials : Answers(TrialData)]

\* .from('indications').select('*').eq('id', id).single(): an error unless
\* exactly one row is found
SingleIndication(d, id, io) ==
  LET rows == {r \in d.indications : IdText(r.id) = id}
  IN  IF io.lookup = "ok" /\ Cardinality(rows) = 1 THEN rows ELSE {}

\* funnelData?.map(...) || [] and lateStageTrials?.map(...) || []
MapOrEmpty(answer) == IF answer.error THEN <<>> ELSE answer.data

\* the handler that answers 500 when a later query fails
IndicationDetailsResponse_FailHard(req, d, io) ==
  IF req.method = "OPTIONS"
  THEN [status |-> 200, body |-> [text |-> "ok"], queries |-> <<>>]
  ELSE IF req.id = NULL \/ req.id = ""
  THEN [status |-> 400, body |-> [error |-> "Missing indication ID"],
        queries |-> <<>>]
  ELSE IF SingleIndication(d, req.id, io) = {}
  THEN [status |-> 404, body |-> [error |-> "lookup"],
        queries |-> <<"indications">>]
  ELSE [status |-> 500, body |-> [error |-> "Internal server error"],
        queries |-> <<"indications", "v_trial_funnel_by_indication">>]

\* serve(async (req) => ...) (lines 9-98)
IndicationDetailsResponse(req, d, io) ==
  IF req.method = "OPTIONS"
  THEN [status |-> 200, body |-> [text |-> "ok"], queries |-> <<>>]
  ELSE IF req.id = NULL \/ req.id = ""
  THEN [status |-> 400, body |-> [error |-> "Missing indication ID"],
        queries |-> <<>>]
  ELSE IF SingleIndication(d, req.id, io) = {}
  THEN [status |-> 404, body |-> [error |-> "lookup"],
        queries |-> <<"indications">>]
  ELSE LET indication == CHOOSE r \in SingleIndication(d, req.id, io) : TRUE
       IN  [status |-> 200,
            body |-> [indication |-> [id |-> indication.id,
                                      label |-> indication.label,
                                      mesh_id |-> indication.mesh_id],
                      funnel |-> MapOrEmpty(io.funnel),
                      late_stage_trials |-> MapOrEmpty(io.trials)],
            queries |-> <<"indications", "v_trial_funnel_by_indication",
                          "trials">>]

\* one request served: the handler only reads the store
IndicationDetails(req, io) ==
  LET resp == IndicationDetailsResponse(req, db, io)
  IN  /\ http' = [req |-> req, io |-> io, status |-> resp.status,
                  body |-> resp.body, queries |-> resp.queries]
      /\ UNCHANGED <<db, seq, now, etl_executions, user_roles, sql_result,
                     runs, rpc_calls, call, twice, page, links, nav, search>>

NextDetails ==
  \/ \E req \in DetailRequests, io \in DetailIo : IndicationDetails(req, io)
  \/ \E name \in {N_Ax, N_B} : SqlInsertEntity("indication", name)
  \/ \E id \in KeysOf("indications") : SqlDelete("indications", id)

SpecDetails == Init /\ [][NextDetails]_vars

\* what the answer to the request just served must be: 400 without a
\* query when the id parameter is missing, 404 when the indication lookup
\* fails, and otherwise 200, the list of a failed query being empty; the
\* store is left as it was
DetailsAsClaimed ==
  LET req   == http'.req
      io    == http'.io
      found == {r \in db.indications : IdText(r.id) = req.id}
  IN  /\ UNCHANGED <<db, seq, links, etl_executions>>
      /\ IF req.id \in {NULL, ""}
         THEN http'.status = 400 /\ http'.queries = <<>>
         ELSE IF io.lookup = "error" \/ Cardinality(found) # 1
         THEN http'.status = 404
         ELSE /\ http'.status = 200
              /\ \E r \in found :
                   /\ http'.body.indication.id = r.id
                   /\ http'.body.indication.label = r.label
              /\ http'.body.funnel =
                   IF io.funnel.error THEN <<>> ELSE io.funnel.data
              /\ http'.body.late_stage_trials =
                   IF io.trials.error THEN <<>> ELSE io.trials.data

KnownEtlTypes == {"ctgov", "fda", "edgar", "refresh-search"}

\* the body is a result object whose success field is b
Success(body, b) == "success" \in DOMAIN body /\ body.success = b

\* what the claim says of the request last served: an unknown path segment
\* is answered success = false with a message naming the segment and the
\* available types, and no RPC; refresh-search is answered success = true
\* exactly when the RPC returned no error
SwitchAsClaimed ==
  /\ http.req.etlType \notin KnownEtlTypes =>
       /\ Success(http.body, FALSE)
       /\ "message" \in DOMAIN http.body
       /\ http.body.message =
            <<"Unknown ETL type", http.req.etlType,
              "Available: ctgov, fda, edgar, refresh-search">>
       /\ ~http.rpc
  /\ http.req.etlType = "refresh-search" =>
       (Success(http.body, TRUE) <=> http.rpc_result = "ok")

\* C26 as stated: every admin-etl request whose last path segment is none
\* of ctgov, fda, edgar, refresh-search gets success = false, the message
\* and no RPC; for refresh-search success is true exactly when the RPC
\* returned no error.
C26_UnknownTypeAndRefresh == http.status # 0 => SwitchAsClaimed

\* C26, amended: the same for every request that is not an OPTIONS
\* preflight and carries an Authorization header.
C26_SwitchOutcome ==
  (http.status # 0 /\ http.req.method # "OPTIONS"
     /\ ~NoAuthorization(http.req)) =>
    /\ SwitchAsClaimed
    /\ http.req.etlType = "refresh-search" => http.rpc

\* a request for an unknown type was answered success = false after a
\* refresh-search whose RPC had been invoked
C26_Witness ==
  /\ http.req.etlType = "bogus"
  /\ http.req.authorization = "Bearer token"
  /\ http.req.method = "POST"
  /\ Success(http.body, FALSE)
  /\ rpc_calls >= 1

(***************************************************************************)
(* Row-level security of user_roles (user-roles migration, lines 1-43).    *)
(* The table has a SELECT policy for a user's own rows and one FOR ALL     *)
(* policy for owners; the policies that apply to a command are OR-ed, and  *)
(* a policy without WITH CHECK checks new rows with its USING expression.  *)
(***************************************************************************)
AppRoles == {"owner", "admin", "user"}

\* a FOR ALL policy that lets users manage the rows that name them
UserRolesPolicy_OwnRows(roles, uid, cmd, row) == uid = row.user_id

\* may the authenticated user uid apply cmd to row
UserRolesPolicy(roles, uid, cmd, row) ==
  CASE cmd = "SELECT" -> uid = row.user_id \/ has_role(roles, uid, "owner")
    [] OTHER          -> has_role(roles, uid, "owner")

\* UNIQUE (user_id, role): rows are [user_id, role], so a set of rows has
\* the pair once; an INSERT of a pair that is present fails
UserRolesUnique(rows, row) == row \notin rows

\* a statement on user_roles issued by the authenticated user uid:
\* INSERT (t, r); UPDATE SET role = r2 WHERE user_id = t AND role = r;
\* DELETE WHERE user_id = t AND role = r
RoleStatement(uid, cmd, t, r, r2) ==
  LET old  == [user_id |-> t, role |-> r]
      new  == [user_id |-> t, role |-> IF cmd = "UPDATE" THEN r2 ELSE r]
      hit  == {x \in user_roles :
                 x = old /\ UserRolesPolicy(user_roles, uid, cmd, x)}
      rows ==
        CASE cmd = "INSERT" ->
               IF UserRolesPolicy(user_roles, uid, cmd, new)
                    /\ UserRolesUnique(user_roles, new)
               THEN user_roles \cup {new} ELSE user_roles
          [] cmd = "UPDATE" ->
               IF hit # {} /\ UserRolesPolicy(user_roles, uid, cmd, new)
                    /\ (new = old \/ UserRolesUnique(user_roles, new))
               THEN (user_roles \ hit) \cup {new} ELSE user_roles
          [] cmd = "DELETE" -> user_roles \ hit
  IN  /\ user_roles' = rows
      /\ sql_result' =
           [cmd |-> cmd, uid |-> uid,
            rows |-> IF cmd = "INSERT"
                     THEN Cardinality(rows) - Cardinality(user_roles)
                     ELSE IF rows = user_roles /\ ~(cmd = "UPDATE" /\ new = old)
                     THEN 0 ELSE Cardinality(hit)]
      /\ UNCHANGED <<db, seq, now, etl_executions, runs, http, rpc_calls,
                     call, twice, page, links, nav, search>>

NextRoles ==
  \/ \E uid \in Users, t \in Users, r \in AppRoles :
       RoleStatement(uid, "INSERT", t, r, r)
  \/ \E uid \in Users, t \in Users, r \in AppRoles, r2 \in AppRoles :
       RoleStatement(uid, "UPDATE", t, r, r2)
  \/ \E uid \in Users, t \in Users, r \in AppRoles :
       RoleStatement(uid, "DELETE", t, r, r)

SpecRoles == Init /\ [][NextRoles]_vars

\* C25: no operation by an authenticated user who does not hold the owner
\* role inserts, updates or deletes a row of user_roles: every step that
\* changes user_roles is a statement of a user who held the owner role
\* before it, and a statement of any other user affects no row; so nobody
\* comes to hold the owner or admin role through a non-owner's statement.
C25_OnlyOwnersManageRoles ==
  [][/\ user_roles' # user_roles =>
          \E x \in user_roles :
            x.user_id = sql_result'.uid /\ x.role = "owner"
     /\ (sql_result' # sql_result
           /\ ~\E x \in user_roles :
                 x.user_id = sql_result'.uid /\ x.role = "owner") =>
          /\ sql_result'.rows = 0
          /\ user_roles' = user_roles]_vars

\* the plain user tried to insert an owner role for itself, no row was
\* affected and the user is still no owner, after the owner had changed
\* the roles
C25_Witness ==
  /\ sql_result.cmd = "INSERT"
  /\ sql_result.uid = "u_user"
  /\ sql_result.rows = 0
  /\ user_roles # SeedRoles
  /\ [user_id |-> "u_user", role |-> "owner"] \notin user_roles
  /\ [user_id |-> "u_user", role |-> "admin"] \notin user_roles

====
